---- MODULE Spec2Model ----
(***************************************************************************)
(* ZawyaX equity tokenization: the Factory contract (primary issuance,     *)
(* escrowed proceeds, secondary-market entry points), the EquityToken it   *)
(* deploys per project and the order book of OrderBookLib.                 *)
(*                                                                         *)
(* Quantities are scaled down: the 10^18 fixed-point unit is ONE_SHARE,    *)
(* the total supply of 1_000_000 * 10^18 is TOTAL_SHARES, the purchase     *)
(* currency's 10^decimals is stableUnit.  Ratios in basis points keep      *)
(* their real denominator.  An order id, keccak256(timestamp, project,     *)
(* sender, orderCounter), is identified with the orderCounter it is        *)
(* computed from: the counter is unique per placement and the hash is      *)
(* taken to be collision free.                                             *)
(***************************************************************************)
EXTENDS Integers, Sequences, FiniteSets, TLC

\* ------------------------------------------------------------------ bounds
MaxProjects == 1
\* orders the book can hold in all (the width of the order storage)
MaxOrders == 4
\* orders placed in the specifications that enumerate every trader and side
MaxBookOrders == 3
MaxMatchCalls == 1

\* --------------------------------------------------------------- constants
TOTAL_SHARES == 8
BASIS_POINTS == 10000
ONE_SHARE == 2
MAX_TRADING_FEE_RATE == 1000

\* ------------------------------------------------------------- identities
NoAddress == "0x0"
FactoryAddr == "factory"
Founders == {"f"}
Investors == {"i1", "i2"}
Admins == {"adm"}
Users == Founders \cup Investors \cup Admins
Holders == Users \cup {FactoryAddr}
Currencies == {"USDC", "NW"}
Whitelisted == {"USDC"}
ProjectIds == 1..MaxProjects
OrderIds == 1..MaxOrders

\* 10 ** IERC20Metadata(purchaseToken).decimals()
stableUnit(c) == 2

VARIABLES
    paused,              \* Pausable state of the Factory
    PLATFORM_FEE,
    TRADING_FEE_RATE,
    TradeFeeAmount,
    projectCounter,
    orderCounter,
    tradeCounter,
    projects,            \* projectId -> Project
    tokenBalance,        \* projectId -> holder -> EquityToken balance
    tokenSharesToSell,   \* projectId -> EquityToken.sharesToSell
    tokenPaused,         \* projectId -> EquityToken paused
    currencyBalance,     \* currency -> holder -> balance
    orders,              \* orderId -> Order
    userOrders,          \* trader -> sequence of order ids
    projectBuyOrders,    \* projectId -> sequence of order ids
    projectSellOrders,   \* projectId -> sequence of order ids
    projectTrades,       \* projectId -> sequence of Trade
    projectMarketStats,  \* projectId -> MarketStats
    now,                 \* block.timestamp
    proceeds,            \* history: currency pulled by buyShares, per project
    withdrawn,           \* history: currency paid out by withdrawFunds, per project
    lastCall             \* history: the call that produced this state

factoryVars == <<paused, PLATFORM_FEE, TRADING_FEE_RATE, TradeFeeAmount,
                 projectCounter, orderCounter, tradeCounter, projects>>
ledgerVars == <<tokenBalance, tokenSharesToSell, tokenPaused, currencyBalance>>
bookVars == <<orders, userOrders, projectBuyOrders, projectSellOrders,
              projectTrades, projectMarketStats>>
historyVars == <<proceeds, withdrawn, lastCall>>
vars == <<factoryVars, ledgerVars, bookVars, now, historyVars>>

\* ------------------------------------------------------------ zero values
ZeroProject ==
    [purchaseToken |-> NoAddress, valuationUSD |-> 0, totalShares |-> 0,
     availableSharesToSell |-> 0, sharesSold |-> 0, pricePerShare |-> 0,
     availableFunds |-> 0, founder |-> NoAddress, exists |-> FALSE,
     verified |-> FALSE, secondaryMarketEnabled |-> FALSE]

ZeroOrder ==
    [orderId |-> 0, projectId |-> 0, trader |-> NoAddress, orderType |-> "BUY",
     shares |-> 0, sharesRemaining |-> 0, pricePerShare |-> 0, totalValue |-> 0,
     timestamp |-> 0, expirationTime |-> 0, status |-> "ACTIVE",
     isMarketOrder |-> FALSE]

ZeroStats ==
    [lastPrice |-> 0, highPrice24h |-> 0, lowPrice24h |-> 0, volume24h |-> 0,
     totalTrades |-> 0, bestBidPrice |-> 0, bestAskPrice |-> 0, spread |-> 0,
     lastUpdateTime |-> 0]

OrderStatus == {"ACTIVE", "FILLED", "CANCELLED", "PARTIALLY_FILLED"}

\* ------------------------------------------------------------ ERC20 moves
\* ERC20 _update(from, to, value); the caller checks the balance first.
Move(bal, from, to, amount) ==
    [bal EXCEPT ![from] = @ - amount, ![to] = @ + amount]

hasAdminRole(a) == a \in Admins

Min2(a, b) == IF a < b THEN a ELSE b

\* sum of f[x] over the x of S
SetSum(S, f) ==
    LET RECURSIVE Go(_)
        Go(T) == IF T = {} THEN 0
                 ELSE LET x == CHOOSE y \in T : TRUE IN f[x] + Go(T \ {x})
    IN Go(S)

\* ------------------------------------------------------------------- Init
\* The state left by the Factory constructor; the currency ledger is an
\* external contract whose holders start with InitialCurrency each.
InitialCurrency == 6
PlatformFees == {0, 2500}
TradingFeeRates == {5000}

Init ==
    /\ paused = FALSE
    /\ PLATFORM_FEE \in PlatformFees
    /\ TRADING_FEE_RATE \in TradingFeeRates
    /\ TradeFeeAmount = 0
    /\ projectCounter = 1
    /\ orderCounter = 1
    /\ tradeCounter = 1
    /\ projects = [p \in ProjectIds |-> ZeroProject]
    /\ tokenBalance = [p \in ProjectIds |-> [h \in Holders |-> 0]]
    /\ tokenSharesToSell = [p \in ProjectIds |-> 0]
    /\ tokenPaused = [p \in ProjectIds |-> FALSE]
    /\ currencyBalance = [c \in Currencies |->
                            [h \in Holders |-> IF h \in Investors THEN InitialCurrency ELSE 0]]
    /\ orders = [o \in OrderIds |-> ZeroOrder]
    /\ userOrders = [u \in Users |-> <<>>]
    /\ projectBuyOrders = [p \in ProjectIds |-> <<>>]
    /\ projectSellOrders = [p \in ProjectIds |-> <<>>]
    /\ projectTrades = [p \in ProjectIds |-> <<>>]
    /\ projectMarketStats = [p \in ProjectIds |-> ZeroStats]
    /\ now = 1
    /\ proceeds = [p \in ProjectIds |-> 0]
    /\ withdrawn = [p \in ProjectIds |-> 0]
    /\ lastCall = [op |-> "constructor", sender |-> "adm", projectId |-> 0, orderId |-> 0,
                   amount |-> 0, log |-> <<>>]

Call(op, sender, pid, oid, amount, log) ==
    [op |-> op, sender |-> sender, projectId |-> pid, orderId |-> oid,
     amount |-> amount, log |-> log]

\* ============================================================== issuance

\* platform fee is a percentage of the shares to sell
platformFeeOf(sharesToSell) == (sharesToSell * PLATFORM_FEE) \div BASIS_POINTS

\* price = (valuationUSD * 10^stableDecimals) / TOTAL_SHARES
priceOf(valuationUSD, purchaseToken) ==
    (valuationUSD * stableUnit(purchaseToken)) \div TOTAL_SHARES

\* the requires without the one on the purchase currency
createRequiresAnyCurrency(valuationUSD, sharesToSell, purchaseToken) ==
    /\ valuationUSD > 0
    /\ sharesToSell > 0
    /\ sharesToSell <= TOTAL_SHARES

\* the four requires at the head of createProject
createRequires(valuationUSD, sharesToSell, purchaseToken) ==
    /\ valuationUSD > 0
    /\ sharesToSell > 0
    /\ sharesToSell <= TOTAL_SHARES
    /\ purchaseToken \in Whitelisted

createProject(sender, valuationUSD, sharesToSell, purchaseToken) ==
    LET platformFee == platformFeeOf(sharesToSell)
        projectId == projectCounter
    IN
    /\ ~paused
    /\ projectCounter <= MaxProjects
    /\ createRequires(valuationUSD, sharesToSell, purchaseToken)
    \* EquityToken constructor: _mint(initialOwner, TOTAL_SHARES - sharesToSell - _platformFee)
    /\ TOTAL_SHARES - sharesToSell - platformFee >= 0
    \* sharesToSellAfterPlatformFee = sharesToSell - platformFee
    /\ sharesToSell - platformFee >= 0
    /\ tokenSharesToSell' = [tokenSharesToSell EXCEPT ![projectId] = sharesToSell]
    /\ tokenBalance' = [tokenBalance EXCEPT ![projectId] =
            [h \in Holders |->
                (IF h = FactoryAddr THEN platformFee ELSE 0)
              + (IF h = sender THEN TOTAL_SHARES - sharesToSell - platformFee ELSE 0)]]
    /\ tokenPaused' = [tokenPaused EXCEPT ![projectId] = TRUE]
    /\ projectCounter' = projectCounter + 1
    /\ projects' = [projects EXCEPT ![projectId] =
            [purchaseToken |-> purchaseToken,
             valuationUSD |-> valuationUSD,
             totalShares |-> TOTAL_SHARES,
             availableSharesToSell |-> sharesToSell - platformFee,
             sharesSold |-> 0,
             pricePerShare |-> priceOf(valuationUSD, purchaseToken),
             availableFunds |-> 0,
             founder |-> sender,
             exists |-> TRUE,
             verified |-> FALSE,
             secondaryMarketEnabled |-> FALSE]]
    /\ lastCall' = Call("createProject", sender, projectId, 0, sharesToSell, <<>>)
    /\ UNCHANGED <<paused, PLATFORM_FEE, TRADING_FEE_RATE, TradeFeeAmount,
                   orderCounter, tradeCounter, currencyBalance, bookVars, now,
                   proceeds, withdrawn>>

\* a cost without the division by the fixed-point unit
costOfUnscaled(sharesAmount, pricePerShare) == sharesAmount * pricePerShare

\* cost = (sharesAmount * p.pricePerShare) / 1e18
costOf(sharesAmount, pricePerShare) == (sharesAmount * pricePerShare) \div ONE_SHARE

\* buyShares bookkeeping without the increment of sharesSold
projectAfterBuyNoSold(p, sharesAmount, cost) ==
    [p EXCEPT !.availableSharesToSell = @ - sharesAmount,
              !.availableFunds = @ + cost]

\* the three counters buyShares updates
projectAfterBuy(p, sharesAmount, cost) ==
    [p EXCEPT !.availableSharesToSell = @ - sharesAmount,
              !.sharesSold = @ + sharesAmount,
              !.availableFunds = @ + cost]

\* the requires without the one on a zero amount
buyRequiresAnyAmount(p, sharesAmount) ==
    /\ p.exists
    /\ sharesAmount <= p.availableSharesToSell

\* the three requires at the head of buyShares
buyRequires(p, sharesAmount) ==
    /\ p.exists
    /\ sharesAmount > 0
    /\ sharesAmount <= p.availableSharesToSell

\* a primary sale that shows its price as the market's last price
buySharesRecorded(sender, projectId, sharesAmount) ==
    LET p == projects[projectId]
        cost == costOf(sharesAmount, p.pricePerShare)
    IN
    /\ ~paused
    /\ buyRequires(p, sharesAmount)
    \* safeTransferFrom(msg.sender, address(this), cost)
    /\ currencyBalance[p.purchaseToken][sender] >= cost
    \* EquityToken.mint: require(amount <= sharesToSell)
    /\ sharesAmount <= tokenSharesToSell[projectId]
    /\ projects' = [projects EXCEPT ![projectId] = projectAfterBuy(p, sharesAmount, cost)]
    /\ currencyBalance' = [currencyBalance EXCEPT ![p.purchaseToken] =
                              Move(@, sender, FactoryAddr, cost)]
    /\ tokenBalance' = [tokenBalance EXCEPT ![projectId][sender] = @ + sharesAmount]
    /\ tokenSharesToSell' = [tokenSharesToSell EXCEPT ![projectId] = @ - sharesAmount]
    /\ proceeds' = [proceeds EXCEPT ![projectId] = @ + cost]
    /\ lastCall' = Call("buyShares", sender, projectId, 0, sharesAmount, <<>>)
    /\ projectMarketStats' = [projectMarketStats EXCEPT ![projectId].lastPrice = p.pricePerShare]
    /\ UNCHANGED <<paused, PLATFORM_FEE, TRADING_FEE_RATE, TradeFeeAmount,
                   projectCounter, orderCounter, tradeCounter, tokenPaused,
                   orders, userOrders, projectBuyOrders, projectSellOrders,
                   projectTrades, now, withdrawn>>

buyShares(sender, projectId, sharesAmount) ==
    LET p == projects[projectId]
        cost == costOf(sharesAmount, p.pricePerShare)
    IN
    /\ ~paused
    /\ buyRequires(p, sharesAmount)
    \* safeTransferFrom(msg.sender, address(this), cost)
    /\ currencyBalance[p.purchaseToken][sender] >= cost
    \* EquityToken.mint: require(amount <= sharesToSell)
    /\ sharesAmount <= tokenSharesToSell[projectId]
    /\ projects' = [projects EXCEPT ![projectId] = projectAfterBuy(p, sharesAmount, cost)]
    /\ currencyBalance' = [currencyBalance EXCEPT ![p.purchaseToken] =
                              Move(@, sender, FactoryAddr, cost)]
    /\ tokenBalance' = [tokenBalance EXCEPT ![projectId][sender] = @ + sharesAmount]
    /\ tokenSharesToSell' = [tokenSharesToSell EXCEPT ![projectId] = @ - sharesAmount]
    /\ proceeds' = [proceeds EXCEPT ![projectId] = @ + cost]
    /\ lastCall' = Call("buyShares", sender, projectId, 0, sharesAmount, <<>>)
    /\ UNCHANGED <<paused, PLATFORM_FEE, TRADING_FEE_RATE, TradeFeeAmount,
                   projectCounter, orderCounter, tradeCounter, tokenPaused,
                   bookVars, now, withdrawn>>

\* an authority that stays with the founder
mayWithdrawFounder(p, sender) == sender = p.founder

\* who may withdraw: the founder while unverified, an administrator once verified
mayWithdraw(p, sender) ==
    IF ~p.verified THEN sender = p.founder ELSE hasAdminRole(sender)

\* a default recipient that is the founder whatever the verification
withdrawRecipientFounder(p, sender, to) ==
    IF to # NoAddress THEN to ELSE p.founder

\* recipient when `to` is the zero address
withdrawRecipient(p, sender, to) ==
    IF to # NoAddress THEN to
    ELSE IF ~p.verified THEN p.founder ELSE sender

\* withdrawFunds bookkeeping that leaves availableFunds as it was
projectAfterWithdrawKeep(p, amount) == p

\* withdrawFunds bookkeeping that also clears the verification
projectAfterWithdrawUnverify(p, amount) ==
    [p EXCEPT !.availableFunds = @ - amount, !.verified = FALSE]

\* p.availableFunds -= amount
projectAfterWithdraw(p, amount) == [p EXCEPT !.availableFunds = @ - amount]

withdrawFunds(sender, projectId, amount, to) ==
    LET p == projects[projectId]
        rcpt == withdrawRecipient(p, sender, to)
    IN
    /\ p.exists
    /\ mayWithdraw(p, sender)
    /\ amount > 0
    /\ amount <= p.availableFunds
    \* safeTransfer(to, amount)
    /\ currencyBalance[p.purchaseToken][FactoryAddr] >= amount
    /\ projects' = [projects EXCEPT ![projectId] = projectAfterWithdraw(p, amount)]
    /\ currencyBalance' = [currencyBalance EXCEPT ![p.purchaseToken] =
                              Move(@, FactoryAddr, rcpt, amount)]
    /\ withdrawn' = [withdrawn EXCEPT ![projectId] = @ + amount]
    /\ lastCall' = Call("withdrawFunds", sender, projectId, 0, amount, <<>>)
    /\ UNCHANGED <<paused, PLATFORM_FEE, TRADING_FEE_RATE, TradeFeeAmount,
                   projectCounter, orderCounter, tradeCounter, tokenBalance,
                   tokenSharesToSell, tokenPaused, bookVars, now, proceeds>>

\* ======================================================= administration

\* Factory.pause(): onlyRole(ADMIN_ROLE), Pausable._pause requires not paused
pause(sender) ==
    /\ hasAdminRole(sender)
    /\ ~paused
    /\ paused' = TRUE
    /\ lastCall' = Call("pause", sender, 0, 0, 0, <<>>)
    /\ UNCHANGED <<PLATFORM_FEE, TRADING_FEE_RATE, TradeFeeAmount, projectCounter,
                   orderCounter, tradeCounter, projects, ledgerVars, bookVars,
                   now, proceeds, withdrawn>>

unpause(sender) ==
    /\ hasAdminRole(sender)
    /\ paused
    /\ paused' = FALSE
    /\ lastCall' = Call("unpause", sender, 0, 0, 0, <<>>)
    /\ UNCHANGED <<PLATFORM_FEE, TRADING_FEE_RATE, TradeFeeAmount, projectCounter,
                   orderCounter, tradeCounter, projects, ledgerVars, bookVars,
                   now, proceeds, withdrawn>>

\* EquityToken.pause(): the owner (the founder) or the Factory
mayPauseToken(sender, projectId) ==
    sender = projects[projectId].founder \/ sender = FactoryAddr

tokenPause(sender, projectId) ==
    /\ projects[projectId].founder # NoAddress
    /\ mayPauseToken(sender, projectId)
    /\ ~tokenPaused[projectId]
    /\ tokenPaused' = [tokenPaused EXCEPT ![projectId] = TRUE]
    /\ lastCall' = Call("tokenPause", sender, projectId, 0, 0, <<>>)
    /\ UNCHANGED <<factoryVars, tokenBalance, tokenSharesToSell, currencyBalance,
                   bookVars, now, proceeds, withdrawn>>

tokenUnpause(sender, projectId) ==
    /\ projects[projectId].founder # NoAddress
    /\ mayPauseToken(sender, projectId)
    /\ tokenPaused[projectId]
    /\ tokenPaused' = [tokenPaused EXCEPT ![projectId] = FALSE]
    /\ lastCall' = Call("tokenUnpause", sender, projectId, 0, 0, <<>>)
    /\ UNCHANGED <<factoryVars, tokenBalance, tokenSharesToSell, currencyBalance,
                   bookVars, now, proceeds, withdrawn>>

\* Factory.pauseProject: onlyRole(ADMIN_ROLE), then token.pause() as the Factory
pauseProject(sender, projectId) ==
    /\ hasAdminRole(sender)
    /\ projects[projectId].exists
    /\ tokenPause(FactoryAddr, projectId)

unpauseProject(sender, projectId) ==
    /\ hasAdminRole(sender)
    /\ projects[projectId].exists
    /\ tokenUnpause(FactoryAddr, projectId)

\* EquityToken.setSharesToSell: onlyOwner; sharesToSell += x; _burn(owner, x)
setSharesToSell(sender, projectId, x) ==
    /\ projects[projectId].founder # NoAddress
    /\ sender = projects[projectId].founder
    /\ x <= TOTAL_SHARES
    /\ x > tokenSharesToSell[projectId]
    /\ tokenBalance[projectId][sender] >= x
    /\ tokenSharesToSell' = [tokenSharesToSell EXCEPT ![projectId] = @ + x]
    /\ tokenBalance' = [tokenBalance EXCEPT ![projectId][sender] = @ - x]
    /\ lastCall' = Call("setSharesToSell", sender, projectId, 0, x, <<>>)
    /\ UNCHANGED <<factoryVars, tokenPaused, currencyBalance, bookVars, now,
                   proceeds, withdrawn>>

setProjectVerified(sender, projectId, verified) ==
    /\ hasAdminRole(sender)
    /\ projects' = [projects EXCEPT ![projectId].verified = verified]
    /\ lastCall' = Call("setProjectVerified", sender, projectId, 0, 0, <<>>)
    /\ UNCHANGED <<paused, PLATFORM_FEE, TRADING_FEE_RATE, TradeFeeAmount,
                   projectCounter, orderCounter, tradeCounter, ledgerVars,
                   bookVars, now, proceeds, withdrawn>>

setProjectExists(sender, projectId, exists) ==
    /\ hasAdminRole(sender)
    /\ projects' = [projects EXCEPT ![projectId].exists = exists]
    /\ lastCall' = Call("setProjectExists", sender, projectId, 0, 0, <<>>)
    /\ UNCHANGED <<paused, PLATFORM_FEE, TRADING_FEE_RATE, TradeFeeAmount,
                   projectCounter, orderCounter, tradeCounter, ledgerVars,
                   bookVars, now, proceeds, withdrawn>>

setPlatformFee(sender, platformFee) ==
    /\ hasAdminRole(sender)
    /\ PLATFORM_FEE' = platformFee
    /\ lastCall' = Call("setPlatformFee", sender, 0, 0, platformFee, <<>>)
    /\ UNCHANGED <<paused, TRADING_FEE_RATE, TradeFeeAmount, projectCounter,
                   orderCounter, tradeCounter, projects, ledgerVars, bookVars,
                   now, proceeds, withdrawn>>

setTradingFeeRate(sender, tradingFeeRate) ==
    /\ hasAdminRole(sender)
    /\ tradingFeeRate <= MAX_TRADING_FEE_RATE
    /\ TRADING_FEE_RATE' = tradingFeeRate
    /\ lastCall' = Call("setTradingFeeRate", sender, 0, 0, tradingFeeRate, <<>>)
    /\ UNCHANGED <<paused, PLATFORM_FEE, TradeFeeAmount, projectCounter,
                   orderCounter, tradeCounter, projects, ledgerVars, bookVars,
                   now, proceeds, withdrawn>>

\* withdrawFees(to, token, amount): any amount the Factory holds of `token`
withdrawFees(sender, to, token, amount) ==
    LET rcpt == IF to = NoAddress THEN sender ELSE to
    IN
    /\ hasAdminRole(sender)
    /\ amount > 0
    /\ token # NoAddress
    /\ currencyBalance[token][FactoryAddr] >= amount
    /\ currencyBalance' = [currencyBalance EXCEPT ![token] =
                              Move(@, FactoryAddr, rcpt, amount)]
    /\ lastCall' = Call("withdrawFees", sender, 0, 0, amount, <<>>)
    /\ UNCHANGED <<factoryVars, tokenBalance, tokenSharesToSell, tokenPaused,
                   bookVars, now, proceeds, withdrawn>>

\* a modifier that lets every caller through
_onlyProjectFounderOrAdminAny(sender, projectId) == TRUE

\* onlyProjectFounderOrAdmin(projectId)
_onlyProjectFounderOrAdmin(sender, projectId) ==
    projects[projectId].founder = sender \/ hasAdminRole(sender)

enableSecondaryMarket(sender, projectId) ==
    /\ ~paused
    /\ _onlyProjectFounderOrAdmin(sender, projectId)
    /\ projects[projectId].exists
    /\ ~projects[projectId].secondaryMarketEnabled
    \* isProjectPaused: token.paused(), a call that reverts where no token
    \* was deployed
    /\ projects[projectId].founder # NoAddress
    /\ ~tokenPaused[projectId]
    /\ projects' = [projects EXCEPT ![projectId].secondaryMarketEnabled = TRUE]
    /\ projectMarketStats' = [projectMarketStats EXCEPT ![projectId].lastUpdateTime = now]
    /\ lastCall' = Call("enableSecondaryMarket", sender, projectId, 0, 0, <<>>)
    /\ UNCHANGED <<paused, PLATFORM_FEE, TRADING_FEE_RATE, TradeFeeAmount,
                   projectCounter, orderCounter, tradeCounter, ledgerVars,
                   orders, userOrders, projectBuyOrders, projectSellOrders,
                   projectTrades, now, proceeds, withdrawn>>

\* ============================================================ order book

\* index (from 1) of the first element of ids that is in the set P, or Len + 1
FirstIndex(ids, P) ==
    LET hits == {i \in 1..Len(ids) : ids[i] \in P}
    IN IF hits = {} THEN Len(ids) + 1
       ELSE CHOOSE i \in hits : \A j \in hits : i <= j

\* buyOrderIds.push(0); shift the tail right; buyOrderIds[insertIndex] = orderId
InsertAt(ids, insertIndex, orderId) ==
    SubSeq(ids, 1, insertIndex - 1) \o <<orderId>> \o SubSeq(ids, insertIndex, Len(ids))

\* an insertion that also passes the orders of the same price
_insertBuyOrderLifo(orderId, buyOrderIds, ords) ==
    LET newOrder == ords[orderId]
        NotHigher(id) == ords[id].pricePerShare <= newOrder.pricePerShare
    IN InsertAt(buyOrderIds, FirstIndex(buyOrderIds, {id \in OrderIds : NotHigher(id)}), orderId)

\* the price the insertion compares with: read from storage, orders[orderId]
_insertBuyOrder(orderId, buyOrderIds, ords) ==
    LET newOrder == ords[orderId]
        Lower(id) == ords[id].pricePerShare < newOrder.pricePerShare
    IN InsertAt(buyOrderIds, FirstIndex(buyOrderIds, {id \in OrderIds : Lower(id)}), orderId)

_insertSellOrder(orderId, sellOrderIds, ords) ==
    LET newOrder == ords[orderId]
        Higher(id) == ords[id].pricePerShare > newOrder.pricePerShare
    IN InsertAt(sellOrderIds, FirstIndex(sellOrderIds, {id \in OrderIds : Higher(id)}), orderId)

\* a removal that leaves the queue as it is
_removeBuyOrderKeep(orderId, buyOrderIds) == buyOrderIds

\* removes the first occurrence of orderId, keeping the order of the rest
_removeBuyOrder(orderId, buyOrderIds) ==
    LET i == FirstIndex(buyOrderIds, {orderId})
    IN IF i > Len(buyOrderIds) THEN buyOrderIds
       ELSE SubSeq(buyOrderIds, 1, i - 1) \o SubSeq(buyOrderIds, i + 1, Len(buyOrderIds))

\* a removal that leaves the sell queue as it is
_removeSellOrderKeep(orderId, sellOrderIds) == sellOrderIds

_removeSellOrder(orderId, sellOrderIds) ==
    LET i == FirstIndex(sellOrderIds, {orderId})
    IN IF i > Len(sellOrderIds) THEN sellOrderIds
       ELSE SubSeq(sellOrderIds, 1, i - 1) \o SubSeq(sellOrderIds, i + 1, Len(sellOrderIds))

\* an update that keeps the last price it had
_updateMarketStatsStale(stats, price, volume, t) ==
    [stats EXCEPT
        !.lastPrice = IF @ = 0 THEN price ELSE @,
        !.totalTrades = @ + 1,
        !.volume24h = @ + volume,
        !.highPrice24h = IF price > @ \/ @ = 0 THEN price ELSE @,
        !.lowPrice24h = IF price < @ \/ @ = 0 THEN price ELSE @,
        !.lastUpdateTime = t]

_updateMarketStats(stats, price, volume, t) ==
    [stats EXCEPT
        !.lastPrice = price,
        !.totalTrades = @ + 1,
        !.volume24h = @ + volume,
        !.highPrice24h = IF price > @ \/ @ = 0 THEN price ELSE @,
        !.lowPrice24h = IF price < @ \/ @ = 0 THEN price ELSE @,
        !.lastUpdateTime = t]

\* a matching condition that turns away orders past their expiration
canMatchLive(buyOrder, sellOrder) ==
    /\ buyOrder.pricePerShare >= sellOrder.pricePerShare
    /\ buyOrder.status = "ACTIVE"
    /\ sellOrder.status = "ACTIVE"
    /\ buyOrder.expirationTime = 0 \/ buyOrder.expirationTime > now
    /\ sellOrder.expirationTime = 0 \/ sellOrder.expirationTime > now

\* a matching condition that wants the buy price strictly above the sell price
canMatchAbove(buyOrder, sellOrder) ==
    /\ buyOrder.pricePerShare > sellOrder.pricePerShare
    /\ buyOrder.status = "ACTIVE"
    /\ sellOrder.status = "ACTIVE"

\* the condition of the matching loop on the two heads
canMatch(buyOrder, sellOrder) ==
    /\ buyOrder.pricePerShare >= sellOrder.pricePerShare
    /\ buyOrder.status = "ACTIVE"
    /\ sellOrder.status = "ACTIVE"

tradedSharesOf(buyOrder, sellOrder) ==
    Min2(buyOrder.sharesRemaining, sellOrder.sharesRemaining)

\* a trade priced at the buyer's limit
tradePriceOfBuyer(buyOrder, sellOrder) == buyOrder.pricePerShare

\* tradePrice = sellOrder.pricePerShare
tradePriceOf(buyOrder, sellOrder) == sellOrder.pricePerShare

\* a trade that charges no fee
tradeFeeOfNone(tradeValue, tradingFeeRate) == 0

\* fee = (tradeValue * tradingFeeRate) / 10000
tradeFeeOf(tradeValue, tradingFeeRate) == (tradeValue * tradingFeeRate) \div 10000

\* a record that takes the place of the history
recordTradeOver(trades, newTrade) == <<newTrade>>

\* projectTrades[projectId].push(newTrade)
recordTrade(trades, newTrade) == Append(trades, newTrade)

\* The state a matching call works on: the storage it reads and writes, the
\* two return values, whether a require or a transfer has failed (ok), and
\* the queues each trade found (log).
MatchState(ords, buys, sells, trades, stats, tok, cur) ==
    [orders |-> ords, buys |-> buys, sells |-> sells, trades |-> trades,
     stats |-> stats, tok |-> tok, cur |-> cur,
     tradesExecuted |-> 0, feeAmount |-> 0, ok |-> TRUE, log |-> <<>>]

_executeTrade(st, project, projectId, buyOrderId, sellOrderId, tradingFeeRate, tc, t) ==
    LET buyOrder == st.orders[buyOrderId]
        sellOrder == st.orders[sellOrderId]
        tradedShares == tradedSharesOf(buyOrder, sellOrder)
        tradePrice == tradePriceOf(buyOrder, sellOrder)
        tradeValue == tradedShares * tradePrice
        fee == tradeFeeOf(tradeValue, tradingFeeRate)
        sellerReceives == tradeValue - fee
        buyerPaid == tradedShares * buyOrder.pricePerShare
        refund == IF buyerPaid > tradeValue THEN buyerPaid - tradeValue ELSE 0
        pt == project.purchaseToken
        \* the three transfers, in the order of the code
        tokOk == ~tokenPaused[projectId] /\ st.tok[projectId][FactoryAddr] >= tradedShares
        tok1 == [st.tok EXCEPT ![projectId] = Move(@, FactoryAddr, buyOrder.trader, tradedShares)]
        payOk == sellerReceives >= 0 /\ st.cur[pt][FactoryAddr] >= sellerReceives
        cur1 == [st.cur EXCEPT ![pt] = Move(@, FactoryAddr, sellOrder.trader, sellerReceives)]
        refundOk == cur1[pt][FactoryAddr] >= refund
        cur2 == [cur1 EXCEPT ![pt] = Move(@, FactoryAddr, buyOrder.trader, refund)]
        \* the orders and the queues while the transfers are made: they are
        \* updated after the last transfer has returned
        atTransfer == [orders |-> st.orders, buys |-> st.buys, sells |-> st.sells]
        buyLeft == buyOrder.sharesRemaining - tradedShares
        sellLeft == sellOrder.sharesRemaining - tradedShares
        ords1 == [st.orders EXCEPT
                    ![buyOrderId].sharesRemaining = buyLeft,
                    ![buyOrderId].status = IF buyLeft = 0 THEN "FILLED" ELSE "PARTIALLY_FILLED"]
        ords2 == [ords1 EXCEPT
                    ![sellOrderId].sharesRemaining = ords1[sellOrderId].sharesRemaining - tradedShares,
                    ![sellOrderId].status =
                        IF ords1[sellOrderId].sharesRemaining - tradedShares = 0
                        THEN "FILLED" ELSE "PARTIALLY_FILLED"]
        newTrade == [tradeId |-> <<t, projectId, buyOrderId, sellOrderId, tc>>,
                     buyOrderId |-> buyOrderId,
                     sellOrderId |-> sellOrderId,
                     buyer |-> buyOrder.trader,
                     seller |-> sellOrder.trader,
                     shares |-> tradedShares,
                     pricePerShare |-> tradePrice,
                     totalValue |-> tradeValue,
                     timestamp |-> t]
    IN
    IF ~(tokOk /\ payOk /\ refundOk /\ buyLeft >= 0 /\ sellLeft >= 0)
    THEN [st EXCEPT !.ok = FALSE]
    ELSE [st EXCEPT
            !.orders = ords2,
            !.buys = IF ords2[buyOrderId].sharesRemaining = 0
                     THEN _removeBuyOrder(buyOrderId, st.buys) ELSE st.buys,
            !.sells = IF ords2[sellOrderId].sharesRemaining = 0
                      THEN _removeSellOrder(sellOrderId, st.sells) ELSE st.sells,
            !.trades = recordTrade(st.trades, newTrade),
            !.stats = _updateMarketStats(st.stats, tradePrice, tradeValue, t),
            !.tok = tok1,
            !.cur = cur2,
            !.feeAmount = fee,
            !.log = Append(st.log, [buyOrderId |-> buyOrderId, sellOrderId |-> sellOrderId,
                                    buys |-> st.buys, sells |-> st.sells,
                                    buyRemaining |-> buyOrder.sharesRemaining,
                                    sellRemaining |-> sellOrder.sharesRemaining,
                                    buyStatusAtTransfer |-> atTransfer.orders[buyOrderId].status,
                                    sellStatusAtTransfer |-> atTransfer.orders[sellOrderId].status,
                                    buysAtTransfer |-> atTransfer.buys,
                                    sellsAtTransfer |-> atTransfer.sells])]

RECURSIVE matchOrdersForProject(_, _, _, _, _, _)
matchOrdersForProject(st, project, projectId, tradingFeeRate, tc, t) ==
    IF ~st.ok \/ Len(st.buys) = 0 \/ Len(st.sells) = 0 THEN st
    ELSE LET bestBuyId == st.buys[1]
             bestSellId == st.sells[1]
         IN IF canMatch(st.orders[bestBuyId], st.orders[bestSellId])
            THEN LET st1 == _executeTrade(st, project, projectId, bestBuyId, bestSellId,
                                          tradingFeeRate, tc, t)
                 IN matchOrdersForProject(
                        [st1 EXCEPT !.tradesExecuted = IF st1.ok THEN @ + 1 ELSE @],
                        project, projectId, tradingFeeRate, tc, t)
            ELSE st

\* Factory.matchOrders applied to the storage st: the library loop, then
\* tradeCounter++ and TradeFeeAmount += feeAmount.  Enabled only when no
\* require or transfer of the loop fails.
matchAndStore(st, projectId, op, sender, oid, amount) ==
    LET end == matchOrdersForProject(st, projects[projectId], projectId,
                                     TRADING_FEE_RATE, tradeCounter, now)
    IN
    /\ end.ok
    /\ orders' = end.orders
    /\ projectBuyOrders' = [projectBuyOrders EXCEPT ![projectId] = end.buys]
    /\ projectSellOrders' = [projectSellOrders EXCEPT ![projectId] = end.sells]
    /\ projectTrades' = [projectTrades EXCEPT ![projectId] = end.trades]
    /\ projectMarketStats' = [projectMarketStats EXCEPT ![projectId] = end.stats]
    /\ tokenBalance' = end.tok
    /\ currencyBalance' = end.cur
    /\ tradeCounter' = tradeCounter + 1
    /\ TradeFeeAmount' = TradeFeeAmount + end.feeAmount
    /\ lastCall' = Call(op, sender, projectId, oid, amount, end.log)

\* the requires without the one on the secondary market
placeRequiresAnyMarket(sender, projectId, orderType, shares, pricePerShare, expirationTime) ==
    LET project == projects[projectId]
    IN
    /\ project.exists
    /\ shares > 0
    /\ pricePerShare > 0
    /\ expirationTime = 0 \/ expirationTime > now
    /\ IF orderType = "BUY"
       THEN currencyBalance[project.purchaseToken][sender] >= shares * pricePerShare
       ELSE ~tokenPaused[projectId] /\ tokenBalance[projectId][sender] >= shares

\* the requires of OrderBookLib.placeLimitOrder and of the escrow transfer
placeRequires(sender, projectId, orderType, shares, pricePerShare, expirationTime) ==
    LET project == projects[projectId]
    IN
    /\ project.exists
    /\ project.secondaryMarketEnabled
    /\ shares > 0
    /\ pricePerShare > 0
    /\ expirationTime = 0 \/ expirationTime > now
    /\ IF orderType = "BUY"
       THEN currencyBalance[project.purchaseToken][sender] >= shares * pricePerShare
       ELSE ~tokenPaused[projectId] /\ tokenBalance[projectId][sender] >= shares

\* the storage when OrderBookLib.placeLimitOrder returns: funds or shares
\* locked, the id inserted in its queue, and then the order written
placedState(sender, projectId, orderType, shares, pricePerShare, expirationTime) ==
    LET project == projects[projectId]
        orderId == orderCounter
        newOrder == [orderId |-> orderId,
                     projectId |-> projectId,
                     trader |-> sender,
                     orderType |-> orderType,
                     shares |-> shares,
                     sharesRemaining |-> shares,
                     pricePerShare |-> pricePerShare,
                     totalValue |-> shares * pricePerShare,
                     timestamp |-> now,
                     expirationTime |-> expirationTime,
                     status |-> "ACTIVE",
                     isMarketOrder |-> FALSE]
        totalCost == shares * pricePerShare
        pt == project.purchaseToken
        cur1 == IF orderType = "BUY"
                THEN [currencyBalance EXCEPT ![pt] = Move(@, sender, FactoryAddr, totalCost)]
                ELSE currencyBalance
        tok1 == IF orderType = "SELL"
                THEN [tokenBalance EXCEPT ![projectId] = Move(@, sender, FactoryAddr, shares)]
                ELSE tokenBalance
        \* the insertion runs before orders[orderId] = newOrder
        buys1 == IF orderType = "BUY"
                 THEN _insertBuyOrder(orderId, projectBuyOrders[projectId], orders)
                 ELSE projectBuyOrders[projectId]
        sells1 == IF orderType = "SELL"
                  THEN _insertSellOrder(orderId, projectSellOrders[projectId], orders)
                  ELSE projectSellOrders[projectId]
        ords1 == [orders EXCEPT ![orderId] = newOrder]
    IN MatchState(ords1, buys1, sells1, projectTrades[projectId],
                  projectMarketStats[projectId], tok1, cur1)

\* Factory.placeLimitOrder: the library call, orderCounter++, matchOrders
placeLimitOrder(sender, projectId, orderType, shares, pricePerShare, expirationTime) ==
    /\ ~paused
    /\ orderCounter <= MaxOrders
    /\ placeRequires(sender, projectId, orderType, shares, pricePerShare, expirationTime)
    /\ userOrders' = [userOrders EXCEPT ![sender] = Append(@, orderCounter)]
    /\ orderCounter' = orderCounter + 1
    /\ matchAndStore(placedState(sender, projectId, orderType, shares, pricePerShare,
                                 expirationTime),
                     projectId, "placeLimitOrder", sender, orderCounter, shares)
    /\ UNCHANGED <<paused, PLATFORM_FEE, TRADING_FEE_RATE, projectCounter, projects,
                   tokenSharesToSell, tokenPaused, now, proceeds, withdrawn>>

\* the manual entry point, callable by anyone
matchOrders(sender, projectId) ==
    /\ ~paused
    /\ tradeCounter - orderCounter < MaxMatchCalls
    /\ matchAndStore(MatchState(orders, projectBuyOrders[projectId],
                                projectSellOrders[projectId], projectTrades[projectId],
                                projectMarketStats[projectId], tokenBalance, currencyBalance),
                     projectId, "matchOrders", sender, 0, 0)
    /\ UNCHANGED <<paused, PLATFORM_FEE, TRADING_FEE_RATE, projectCounter, orderCounter,
                   projects, tokenSharesToSell, tokenPaused, userOrders, now,
                   proceeds, withdrawn>>

\* One side of getOrderBookDepth: count entries, filled from the front of
\* the queue; an entry whose order is not ACTIVE keeps the zeros the arrays
\* are allocated with.
depthSide(orderIds, depth) ==
    LET count == IF Len(orderIds) > depth THEN depth ELSE Len(orderIds)
    IN [prices |-> [i \in 1..count |->
                      IF orders[orderIds[i]].status = "ACTIVE"
                      THEN orders[orderIds[i]].pricePerShare ELSE 0],
        shares |-> [i \in 1..count |->
                      IF orders[orderIds[i]].status = "ACTIVE"
                      THEN orders[orderIds[i]].sharesRemaining ELSE 0]]

\* a view: it returns (buyPrices, buyShares, sellPrices, sellShares) and
\* writes nothing
getOrderBookDepth(projectId, depth) ==
    LET buy == depthSide(projectBuyOrders[projectId], depth)
        sell == depthSide(projectSellOrders[projectId], depth)
    IN [buyPrices |-> buy.prices, buyShares |-> buy.shares,
        sellPrices |-> sell.prices, sellShares |-> sell.shares]

\* an ownership check that accepts every caller of a stored order
isOrderTraderAny(order, sender) == order.trader # NoAddress

\* require(order.trader == msg.sender)
isOrderTrader(order, sender) == order.trader = sender

\* a cancellable check that accepts every status
cancellableAny(order) == TRUE

\* require(status == ACTIVE || status == PARTIALLY_FILLED)
cancellable(order) == order.status \in {"ACTIVE", "PARTIALLY_FILLED"}

\* a refund computed from the original quantity
refundAmountOfShares(order) == order.shares * order.pricePerShare

\* refundAmount = order.sharesRemaining * order.pricePerShare
refundAmountOf(order) == order.sharesRemaining * order.pricePerShare

cancelOrder(sender, orderId) ==
    LET order == orders[orderId]
        pid == order.projectId
        pt == projects[pid].purchaseToken
        refundAmount == refundAmountOf(order)
    IN
    /\ ~paused
    /\ isOrderTrader(order, sender)
    /\ cancellable(order)
    /\ IF order.orderType = "BUY"
       THEN /\ currencyBalance[pt][FactoryAddr] >= refundAmount
            /\ currencyBalance' = [currencyBalance EXCEPT ![pt] =
                                      Move(@, FactoryAddr, order.trader, refundAmount)]
            /\ projectBuyOrders' = [projectBuyOrders EXCEPT ![pid] = _removeBuyOrder(orderId, @)]
            /\ UNCHANGED <<tokenBalance, projectSellOrders>>
       ELSE /\ ~tokenPaused[pid]
            /\ tokenBalance[pid][FactoryAddr] >= order.sharesRemaining
            /\ tokenBalance' = [tokenBalance EXCEPT ![pid] =
                                   Move(@, FactoryAddr, order.trader, order.sharesRemaining)]
            /\ projectSellOrders' = [projectSellOrders EXCEPT ![pid] = _removeSellOrder(orderId, @)]
            /\ UNCHANGED <<currencyBalance, projectBuyOrders>>
    /\ orders' = [orders EXCEPT ![orderId].status = "CANCELLED"]
    /\ lastCall' = Call("cancelOrder", sender, pid, orderId, 0, <<>>)
    /\ UNCHANGED <<factoryVars, tokenSharesToSell, tokenPaused, userOrders,
                   projectTrades, projectMarketStats, now, proceeds, withdrawn>>

\* block.timestamp moves on between two transactions
advanceTime ==
    /\ now' = now + 1
    /\ lastCall' = Call("advanceTime", NoAddress, 0, 0, 0, <<>>)
    /\ UNCHANGED <<factoryVars, ledgerVars, bookVars, proceeds, withdrawn>>

\* ========================================================= specifications

\* ---------------------------------------------------------------- issuance
\* The Factory from its construction: projects are created, shares are sold
\* in the primary sale, proceeds are withdrawn, and the administrators and
\* the founder use their switches.
Valuations == {1, 4, 8}
SharesToSellInputs == {0, 4, 6, 8, 9}
BuyAmounts == {0, 1, 2}
WithdrawAmounts == {0, 1, 2}

NextIssuance ==
    \/ \E u \in Founders, v \in Valuations \cup {0}, s \in SharesToSellInputs,
          c \in Currencies : createProject(u, v, s, c)
    \/ \E u \in Investors, p \in ProjectIds, a \in BuyAmounts : buyShares(u, p, a)
    \/ \E u \in Founders \cup Admins, p \in ProjectIds, a \in WithdrawAmounts,
          to \in {NoAddress, "i1"} : withdrawFunds(u, p, a, to)
    \/ \E p \in ProjectIds, b \in BOOLEAN : setProjectVerified("adm", p, b)
    \/ \E p \in ProjectIds, b \in BOOLEAN : setProjectExists("adm", p, b)
    \/ \E u \in Founders, p \in ProjectIds, x \in 1..TOTAL_SHARES : setSharesToSell(u, p, x)
    \/ \E u \in Founders, p \in ProjectIds : tokenUnpause(u, p)
    \/ \E u \in Founders \cup Admins, p \in ProjectIds : enableSecondaryMarket(u, p)

SpecIssuance == Init /\ [][NextIssuance]_vars

\* --------------------------------------------------------- secondary market
\* The book of project 1 once its market is open.  InitBook is the state
\* reached from the constructor (PLATFORM_FEE = 2500, TRADING_FEE_RATE = 5000)
\* by createProject("f", 8, 6, "USDC"), buyShares("i1", 1, 2) twice,
\* tokenUnpause("f", 1), enableSecondaryMarket("f", 1): investor i1 holds
\* shares to sell, investor i2 holds currency to buy with.
BookProject ==
    [purchaseToken |-> "USDC", valuationUSD |-> 8, totalShares |-> TOTAL_SHARES,
     availableSharesToSell |-> 1, sharesSold |-> 4, pricePerShare |-> 2,
     availableFunds |-> 4, founder |-> "f", exists |-> TRUE,
     verified |-> FALSE, secondaryMarketEnabled |-> TRUE]

\* the variables of the program (all but the history) in the state InitBook
BookOpened ==
    /\ paused = FALSE
    /\ PLATFORM_FEE = 2500
    /\ TRADING_FEE_RATE = 5000
    /\ TradeFeeAmount = 0
    /\ projectCounter = 2
    /\ orderCounter = 1
    /\ tradeCounter = 1
    /\ projects = [p \in ProjectIds |-> IF p = 1 THEN BookProject ELSE ZeroProject]
    /\ tokenBalance = [p \in ProjectIds |-> [h \in Holders |->
            IF p # 1 THEN 0
            ELSE IF h = "i1" THEN 4
            ELSE IF h \in {"f", FactoryAddr} THEN 1 ELSE 0]]
    /\ tokenSharesToSell = [p \in ProjectIds |-> IF p = 1 THEN 2 ELSE 0]
    /\ tokenPaused = [p \in ProjectIds |-> FALSE]
    /\ currencyBalance = [c \in Currencies |-> [h \in Holders |->
            IF c # "USDC" THEN (IF h \in Investors THEN InitialCurrency ELSE 0)
            ELSE IF h = "i1" THEN InitialCurrency - 4
            ELSE IF h = "i2" THEN InitialCurrency
            ELSE IF h = FactoryAddr THEN 4 ELSE 0]]
    /\ orders = [o \in OrderIds |-> ZeroOrder]
    /\ userOrders = [u \in Users |-> <<>>]
    /\ projectBuyOrders = [p \in ProjectIds |-> <<>>]
    /\ projectSellOrders = [p \in ProjectIds |-> <<>>]
    /\ projectTrades = [p \in ProjectIds |-> <<>>]
    /\ projectMarketStats = [p \in ProjectIds |->
            IF p = 1 THEN [ZeroStats EXCEPT !.lastUpdateTime = 1] ELSE ZeroStats]
    /\ now = 1

InitBook ==
    /\ BookOpened
    /\ proceeds = [p \in ProjectIds |-> IF p = 1 THEN 4 ELSE 0]
    /\ withdrawn = [p \in ProjectIds |-> 0]
    /\ lastCall = Call("enableSecondaryMarket", "f", 1, 0, 0, <<>>)

OrderTypes == {"BUY", "SELL"}
OrderShares == {1, 2}
OrderPrices == {1, 2}
Traders == Investors

NextBook ==
    \/ \E u \in Traders, p \in ProjectIds, ty \in OrderTypes, sh \in OrderShares,
          pr \in OrderPrices :
              orderCounter <= MaxBookOrders /\ placeLimitOrder(u, p, ty, sh, pr, 0)
    \/ \E u \in Traders, o \in OrderIds : cancelOrder(u, o)
    \/ \E p \in ProjectIds : matchOrders("i2", p)

Spec == InitBook /\ [][NextBook]_vars

\* The book together with the primary sale and the founder's withdrawals.
NextEscrow ==
    \/ NextBook
    \/ \E u \in Investors, p \in ProjectIds : buyShares(u, p, 1)
    \/ \E p \in ProjectIds : withdrawFunds("f", p, 3, NoAddress)

SpecEscrow == InitBook /\ [][NextEscrow]_vars

\* The book with one buyer and one seller, deep enough for one matching call
\* to execute several trades.
NextFees ==
    \/ \E p \in ProjectIds, sh \in OrderShares, pr \in OrderPrices :
          placeLimitOrder("i2", p, "BUY", sh, pr, 0)
    \/ \E p \in ProjectIds, sh \in OrderShares, pr \in OrderPrices :
          placeLimitOrder("i1", p, "SELL", sh, pr, 0)
    \/ \E u \in Traders, o \in OrderIds : cancelOrder(u, o)
    \/ \E p \in ProjectIds : matchOrders("i1", p)

SpecFees == InitBook /\ [][NextFees]_vars

\* The entry points with the arguments their requires reject: projects are
\* asked for with zero valuations, zero or too many shares and currencies off
\* the allow-list; a project goes from created to funded to open for
\* trading, with purchases of zero and of too many shares on the way, the
\* administrator switches its existence flag, and orders come
\* with zero quantities, zero prices and expirations before, at and after
\* the current time.
MaxGuardOrders == 2
GuardShares == {0, 1}
GuardValuations == {0, 8}
GuardSharesToSell == {0, 6, TOTAL_SHARES + 1}
GuardPrices == {0, 1}
GuardEnablers == {"f", "adm", "i2"}
GuardBuyAmounts == {0, 2, TOTAL_SHARES + 1}
GuardExpirations == {0, 1, 2}

NextGuards ==
    \/ \E v \in GuardValuations, s \in GuardSharesToSell, c \in Currencies :
          createProject("f", v, s, c)
    \/ \E p \in ProjectIds, a \in GuardBuyAmounts : buyShares("i1", p, a)
    \/ \E p \in ProjectIds : tokenUnpause("f", p)
    \/ \E u \in GuardEnablers, p \in ProjectIds : enableSecondaryMarket(u, p)
    \/ \E p \in ProjectIds, b \in BOOLEAN : setProjectExists("adm", p, b)
    \/ \E p \in ProjectIds, ty \in OrderTypes, sh \in GuardShares,
          pr \in GuardPrices, ex \in GuardExpirations :
              orderCounter <= MaxGuardOrders /\ placeLimitOrder("i1", p, ty, sh, pr, ex)
    \/ \E o \in OrderIds : cancelOrder("i1", o)

SpecGuards == Init /\ [][NextGuards]_vars

\* Who may withdraw the proceeds of a project: projects are created by a
\* founder or by an administrator, funded by an investor, verified and
\* un-verified, flagged as existing or not, and every user tries to withdraw.
AuthCreators == Founders \cup Admins
AuthAmounts == {0, 1, 3}
AuthRecipients == {NoAddress, "i2"}

NextAuthority ==
    \/ \E u \in AuthCreators : createProject(u, 8, 6, "USDC")
    \/ \E p \in ProjectIds : buyShares("i1", p, 2)
    \/ \E u \in Users, p \in ProjectIds, a \in AuthAmounts, to \in AuthRecipients :
          withdrawFunds(u, p, a, to)
    \/ \E u \in Users, p \in ProjectIds, b \in BOOLEAN : setProjectVerified(u, p, b)
    \/ \E p \in ProjectIds, b \in BOOLEAN : setProjectExists("adm", p, b)

SpecAuthority == Init /\ [][NextAuthority]_vars

\* The book while time passes: orders are placed with and without an
\* expiration, and the clock moves past the expirations while they are queued.
MaxTime == 3
MaxExpiryOrders == 2
ExpiryInputs == {0, 2}

NextExpiry ==
    \/ \E p \in ProjectIds, pr \in OrderPrices, ex \in ExpiryInputs :
          orderCounter <= MaxExpiryOrders /\ placeLimitOrder("i2", p, "BUY", 1, pr, ex)
    \/ \E p \in ProjectIds, pr \in OrderPrices, ex \in ExpiryInputs :
          orderCounter <= MaxExpiryOrders /\ placeLimitOrder("i1", p, "SELL", 1, pr, ex)
    \/ \E u \in Traders, o \in OrderIds : cancelOrder(u, o)
    \/ \E p \in ProjectIds : matchOrders("i2", p)
    \/ (now < MaxTime /\ advanceTime)

SpecExpiry == InitBook /\ [][NextExpiry]_vars

\* ================================================================ claims

Assigned(o) == orders[o].trader # NoAddress
IsOpen(o) == Assigned(o) /\ orders[o].status \in {"ACTIVE", "PARTIALLY_FILLED"}
IsTerminal(o) == Assigned(o) /\ orders[o].status \in {"FILLED", "CANCELLED"}
PriceOf(o) == orders[o].pricePerShare
InQueue(o, q) == \E i \in 1..Len(q) : q[i] = o
Queued(o) == \E p \in ProjectIds : InQueue(o, projectBuyOrders[p]) \/ InQueue(o, projectSellOrders[p])
OpenOf(p, ty) == {o \in OrderIds : IsOpen(o) /\ orders[o].projectId = p /\ orders[o].orderType = ty}
MatchingCall == lastCall.op \in {"placeLimitOrder", "matchOrders"}

\* C1: in every state, each project's buy queue is non-increasing by price
\* and its sell queue non-decreasing, and orders of equal price stand in the
\* order in which they were placed (ids grow with placement).
C1_BookOrdering ==
    \A p \in ProjectIds :
        LET b == projectBuyOrders[p]
            s == projectSellOrders[p]
        IN /\ \A i, j \in 1..Len(b) : i < j =>
                  \/ PriceOf(b[i]) > PriceOf(b[j])
                  \/ PriceOf(b[i]) = PriceOf(b[j]) /\ b[i] < b[j]
           /\ \A i, j \in 1..Len(s) : i < j =>
                  \/ PriceOf(s[i]) < PriceOf(s[j])
                  \/ PriceOf(s[i]) = PriceOf(s[j]) /\ s[i] < s[j]

\* C2: when a matching call (matchOrders, or the one that ends
\* placeLimitOrder) has returned, its project has no open buy order whose
\* price is at least the price of an open sell order.
C2_NoCrossedBookAfterMatch ==
    MatchingCall =>
        \A b \in OpenOf(lastCall.projectId, "BUY"), s \in OpenOf(lastCall.projectId, "SELL") :
            PriceOf(b) < PriceOf(s)

\* C3: every trade of the last matching call took, among the buy orders
\* queued when it ran, one of the highest price and the earliest placed at
\* that price, and among the sell orders one of the lowest price and the
\* earliest placed at that price.
C3_PriceTimePriority ==
    \A k \in 1..Len(lastCall.log) :
        LET e == lastCall.log[k]
        IN /\ \A i \in 1..Len(e.buys) :
                  \/ PriceOf(e.buys[i]) < PriceOf(e.buyOrderId)
                  \/ PriceOf(e.buys[i]) = PriceOf(e.buyOrderId) /\ e.buys[i] >= e.buyOrderId
           /\ \A i \in 1..Len(e.sells) :
                  \/ PriceOf(e.sells[i]) > PriceOf(e.sellOrderId)
                  \/ PriceOf(e.sells[i]) = PriceOf(e.sellOrderId) /\ e.sells[i] >= e.sellOrderId

C4_Range ==
    \A o \in OrderIds :
        /\ 0 <= orders[o].sharesRemaining
        /\ orders[o].sharesRemaining <= orders[o].shares
        /\ IsTerminal(o) => ~Queued(o)

C4_Step ==
    \A o \in OrderIds :
        /\ Assigned(o) => orders'[o].sharesRemaining <= orders[o].sharesRemaining
        /\ IsTerminal(o) => orders'[o] = orders[o]

\* C4: every order has 0 <= sharesRemaining <= shares; sharesRemaining never
\* grows from a state to the next; a FILLED or CANCELLED order is in no
\* queue and none of its fields changes again.
C4_NoOverFill == [](C4_Range) /\ [][C4_Step]_vars

C4_Witness ==
    /\ \E o \in OrderIds : orders[o].status = "FILLED"
    /\ \E o \in OrderIds : orders[o].status = "CANCELLED"
    /\ lastCall.op = "matchOrders"

TradedIn(o, st) ==
    \E t \in 1..Len(st) : st[t].buyOrderId = o \/ st[t].sellOrderId = o

C5_Step ==
    \A o \in OrderIds :
        LET old == orders[o]
            new == orders'[o]
            matched == /\ new.sharesRemaining < new.shares
                       /\ TradedIn(o, projectTrades'[new.projectId])
        IN IF ~Assigned(o)
           THEN \* placed in this step: ACTIVE, then the matching of the same call
                new.status # "CANCELLED" /\ (new.status # "ACTIVE" => matched)
           ELSE new.status # old.status =>
                \/ /\ old.status = "ACTIVE"
                   /\ new.status = "PARTIALLY_FILLED"
                   /\ matched /\ new.sharesRemaining > 0
                \/ /\ old.status \in {"ACTIVE", "PARTIALLY_FILLED"}
                   /\ new.status = "FILLED"
                   /\ matched /\ new.sharesRemaining = 0
                \/ /\ old.status \in {"ACTIVE", "PARTIALLY_FILLED"}
                   /\ new.status = "CANCELLED"
                   /\ lastCall'.op = "cancelOrder"
                   /\ lastCall'.orderId = o
                   /\ lastCall'.sender = old.trader

\* C5: the status of an order changes only from ACTIVE to PARTIALLY_FILLED
\* (a match that leaves a remainder), from ACTIVE or PARTIALLY_FILLED to
\* FILLED (a match that leaves none) and from ACTIVE or PARTIALLY_FILLED to
\* CANCELLED (cancelOrder by its trader).
C5_StatusTransitions == [][C5_Step]_vars

C5_Witness ==
    /\ \E o \in OrderIds : orders[o].status = "FILLED"
    /\ \E o \in OrderIds : /\ orders[o].status = "CANCELLED"
                           /\ orders[o].sharesRemaining < orders[o].shares

\* C6: a PARTIALLY_FILLED order at the head of its queue is matched with a
\* crossing order at the head of the opposite queue: when a matching call
\* has returned, the two heads of its project do not cross if one of them
\* is PARTIALLY_FILLED.
C6_PartiallyFilledMatchable ==
    MatchingCall =>
        LET b == projectBuyOrders[lastCall.projectId]
            s == projectSellOrders[lastCall.projectId]
        IN (Len(b) > 0 /\ Len(s) > 0) =>
              ~ /\ PriceOf(b[1]) >= PriceOf(s[1])
                /\ IsOpen(b[1]) /\ IsOpen(s[1])
                /\ "PARTIALLY_FILLED" \in {orders[b[1]].status, orders[s[1]].status}

\* C7: for every project, availableFunds plus what withdrawFunds has paid
\* out equals what buyShares has collected.
C7_FundsConserved ==
    \A p \in ProjectIds :
        projects[p].availableFunds + withdrawn[p] = proceeds[p]

C7_Witness ==
    \E p \in ProjectIds :
        /\ withdrawn[p] > 0
        /\ projects[p].availableFunds > 0
        /\ lastCall.op = "withdrawFunds"

HeldShares(p) ==
    SetSum(Holders, [h \in Holders |-> tokenBalance[p][h]])

\* C8: for every created project, the balances of all holders of its equity
\* token (founder, investors, the Factory's escrow) sum to totalShares.
C8_SharesConserved ==
    \A p \in ProjectIds :
        projects[p].founder # NoAddress => HeldShares(p) = projects[p].totalShares

C9_Range ==
    \A p \in ProjectIds :
        projects[p].sharesSold + projects[p].availableSharesToSell <= projects[p].totalShares

C9_Step ==
    \A p \in ProjectIds :
        /\ projects[p].founder # NoAddress =>
              projects'[p].sharesSold + projects'[p].availableSharesToSell
                  = projects[p].sharesSold + projects[p].availableSharesToSell
        /\ (lastCall'.op = "buyShares" /\ lastCall'.projectId = p) =>
              /\ projects'[p].sharesSold = projects[p].sharesSold + lastCall'.amount
              /\ projects'[p].availableSharesToSell
                    = projects[p].availableSharesToSell - lastCall'.amount

\* C9: sharesSold + availableSharesToSell <= totalShares in every state;
\* buyShares moves the bought amount from availableSharesToSell to
\* sharesSold, and no operation changes their sum once the project exists.
C9_SupplyBookkeeping == [](C9_Range) /\ [][C9_Step]_vars

C9_Witness ==
    \E p \in ProjectIds :
        /\ projects[p].sharesSold > 0
        /\ projects[p].availableSharesToSell > 0
        /\ lastCall.op = "buyShares"

OpenBuyEscrow(c) ==
    LET due(o) == IF IsOpen(o) /\ orders[o].orderType = "BUY"
                     /\ projects[orders[o].projectId].purchaseToken = c
                  THEN orders[o].sharesRemaining * orders[o].pricePerShare ELSE 0
    IN SetSum(OrderIds, [o \in OrderIds |-> due(o)])

OpenSellEscrow(p) ==
    LET due(o) == IF IsOpen(o) /\ orders[o].orderType = "SELL" /\ orders[o].projectId = p
                  THEN orders[o].sharesRemaining ELSE 0
    IN SetSum(OrderIds, [o \in OrderIds |-> due(o)])

FundsIn(c) ==
    LET f(p) == IF projects[p].purchaseToken = c THEN projects[p].availableFunds ELSE 0
    IN SetSum(ProjectIds, [p \in ProjectIds |-> f(p)])

\* every matching the next call could run goes through: the manual one, and
\* the one that ends any placement whose requires hold
SettlementGoesThrough ==
    /\ \A p \in ProjectIds :
          matchOrdersForProject(
              MatchState(orders, projectBuyOrders[p], projectSellOrders[p],
                         projectTrades[p], projectMarketStats[p], tokenBalance,
                         currencyBalance),
              projects[p], p, TRADING_FEE_RATE, tradeCounter, now).ok
    /\ orderCounter <= MaxBookOrders =>
          \A u \in Traders, p \in ProjectIds, ty \in OrderTypes, sh \in OrderShares,
             pr \in OrderPrices :
              placeRequires(u, p, ty, sh, pr, 0) =>
                  matchOrdersForProject(placedState(u, p, ty, sh, pr, 0),
                      projects[p], p, TRADING_FEE_RATE, tradeCounter, now).ok

LastTrades ==
    IF lastCall.projectId \in ProjectIds
    THEN LET ts == projectTrades[lastCall.projectId]
         IN SubSeq(ts, Len(ts) - Len(lastCall.log) + 1, Len(ts))
    ELSE <<>>

\* C11: every trade of the last call has the price of the sell order it
\* matched, which is not above the price of the buy order it matched, and
\* the quantity min(buy sharesRemaining, sell sharesRemaining) as they were
\* just before the trade.
C11_TradePriceAndQuantity ==
    /\ Len(LastTrades) = Len(lastCall.log)
    /\ \A k \in 1..Len(lastCall.log) :
          LET e == lastCall.log[k]
              tr == LastTrades[k]
          IN /\ tr.buyOrderId = e.buyOrderId
             /\ tr.sellOrderId = e.sellOrderId
             /\ tr.pricePerShare = orders[e.sellOrderId].pricePerShare
             /\ tr.pricePerShare <= orders[e.buyOrderId].pricePerShare
             /\ tr.shares = IF e.buyRemaining < e.sellRemaining
                            THEN e.buyRemaining ELSE e.sellRemaining

C11_Witness ==
    \E k \in 1..Len(lastCall.log) :
        LET e == lastCall.log[k]
        IN /\ LastTrades[k].pricePerShare < orders[e.buyOrderId].pricePerShare
           /\ e.buyRemaining # e.sellRemaining

\* what the trades of a call owe to holder u, from the claim's formulas: in
\* currency, the proceeds less the fee of what u sold and the overpayment of
\* what u bought; in shares, what u bought
TradeCurrencyDue(u, trades, ords, rate) ==
    SetSum(1..Len(trades),
           [k \in 1..Len(trades) |->
               LET tr == trades[k]
                   q == tr.shares
                   p == tr.pricePerShare
                   buyLimit == ords[tr.buyOrderId].pricePerShare
               IN (IF ords[tr.sellOrderId].trader = u
                   THEN q * p - ((q * p * rate) \div 10000) ELSE 0)
                  + (IF ords[tr.buyOrderId].trader = u /\ buyLimit > p
                     THEN q * (buyLimit - p) ELSE 0)])

TradeSharesDue(u, trades, ords) ==
    SetSum(1..Len(trades),
           [k \in 1..Len(trades) |->
               IF ords[trades[k].buyOrderId].trader = u THEN trades[k].shares ELSE 0])

C12_Step ==
    (lastCall'.op \in {"placeLimitOrder", "matchOrders"}) =>
        LET p == lastCall'.projectId
            c == projects[p].purchaseToken
            placed == orders'[lastCall'.orderId]
            locksCurrency(u) ==
                IF lastCall'.op = "placeLimitOrder" /\ lastCall'.sender = u
                   /\ placed.orderType = "BUY"
                THEN placed.shares * placed.pricePerShare ELSE 0
            locksShares(u) ==
                IF lastCall'.op = "placeLimitOrder" /\ lastCall'.sender = u
                   /\ placed.orderType = "SELL"
                THEN placed.shares ELSE 0
        IN \A u \in Users :
              \* a project never created has no purchase currency and no trade
              /\ IF c \in Currencies
                 THEN currencyBalance'[c][u] =
                        currencyBalance[c][u] - locksCurrency(u)
                        + TradeCurrencyDue(u, LastTrades', orders', TRADING_FEE_RATE)
                 ELSE LastTrades' = <<>> /\ currencyBalance' = currencyBalance
              /\ tokenBalance'[p][u] =
                    tokenBalance[p][u] - locksShares(u)
                    + TradeSharesDue(u, LastTrades', orders')

FeeOfTrade(tr) == (tr.totalValue * TRADING_FEE_RATE) \div BASIS_POINTS

FeesOfAllTrades ==
    SetSum(ProjectIds,
           [p \in ProjectIds |->
               SetSum(1..Len(projectTrades[p]),
                      [k \in 1..Len(projectTrades[p]) |-> FeeOfTrade(projectTrades[p][k])])])

\* C13: TradeFeeAmount equals the sum of the trading fees of all the trades
\* executed so far, whichever call executed them and however many trades a
\* call executed.
C13_FeePool == TradeFeeAmount = FeesOfAllTrades

\* project p holds nothing but the untouched SELL order s: the book after a
\* SELL was placed on an empty book
LoneSell(p, s) ==
    /\ projectBuyOrders[p] = <<>>
    /\ projectSellOrders[p] = <<s>>
    /\ orders[s].orderType = "SELL"
    /\ orders[s].status = "ACTIVE"
    /\ orders[s].sharesRemaining = orders[s].shares

\* the step places on project p a BUY of q shares at price pr
PlacesBuy(p, q, pr) ==
    /\ lastCall'.op = "placeLimitOrder"
    /\ lastCall'.projectId = p
    /\ orders'[lastCall'.orderId].orderType = "BUY"
    /\ orders'[lastCall'.orderId].shares = q
    /\ orders'[lastCall'.orderId].pricePerShare = pr

C14_Step ==
    \A p \in ProjectIds, s \in OrderIds :
        (LoneSell(p, s) /\ PlacesBuy(p, orders[s].shares, orders[s].pricePerShare)) =>
            LET b == lastCall'.orderId
            IN /\ Len(projectTrades'[p]) = Len(projectTrades[p]) + 1
               /\ LET tr == projectTrades'[p][Len(projectTrades'[p])]
                  IN /\ tr.shares = orders[s].shares
                     /\ tr.pricePerShare = orders[s].pricePerShare
                     /\ tr.seller = orders[s].trader
                     /\ tr.buyer = lastCall'.sender
                     /\ tr.sellOrderId = s
                     /\ tr.buyOrderId = b
               /\ orders'[s].status = "FILLED"
               /\ orders'[b].status = "FILLED"
               /\ projectBuyOrders'[p] = <<>>
               /\ projectSellOrders'[p] = <<>>

\* C14: on a book that holds only a SELL of q shares at price p, placed on
\* the empty book, a BUY of q shares at price p produces exactly one trade,
\* of q shares at price p between that seller and that buyer; both orders
\* end FILLED and both queues end empty.
C14_ExactMatch == [][C14_Step]_vars

C14_Witness ==
    /\ lastCall.op = "placeLimitOrder"
    /\ Len(lastCall.log) = 1
    /\ lastCall.log[1].buys = <<lastCall.orderId>>
    /\ Len(lastCall.log[1].sells) = 1
    /\ lastCall.log[1].buyRemaining = 2
    /\ lastCall.log[1].sellRemaining = 2
    /\ orders[lastCall.log[1].sellOrderId].shares = 2
    /\ orders[lastCall.log[1].sellOrderId].pricePerShare = orders[lastCall.orderId].pricePerShare
    /\ projectBuyOrders[lastCall.projectId] = <<>>
    /\ projectSellOrders[lastCall.projectId] = <<>>

C15_Step ==
    \A p \in ProjectIds, s \in OrderIds, q \in OrderShares :
        (LoneSell(p, s) /\ orders[s].shares = 2 * q
         /\ PlacesBuy(p, q, orders[s].pricePerShare)) =>
            LET b == lastCall'.orderId
            IN /\ Len(projectTrades'[p]) = Len(projectTrades[p]) + 1
               /\ projectTrades'[p][Len(projectTrades'[p])].shares = q
               /\ orders'[b].status = "FILLED"
               /\ projectBuyOrders'[p] = <<>>
               /\ orders'[s].status = "PARTIALLY_FILLED"
               /\ orders'[s].sharesRemaining = q
               /\ projectSellOrders'[p] = <<s>>

\* C15: on a book that holds only a SELL of 2q shares at price p, placed on
\* the empty book, a BUY of q shares at price p produces exactly one trade
\* of q shares; the buy order is FILLED and leaves the buy queue, the sell
\* order is PARTIALLY_FILLED with sharesRemaining = q and stays at the head
\* of the sell queue.
C15_PartialFill == [][C15_Step]_vars

C15_Witness ==
    /\ lastCall.op = "placeLimitOrder"
    /\ Len(lastCall.log) = 1
    /\ lastCall.log[1].buys = <<lastCall.orderId>>
    /\ orders[lastCall.orderId].orderType = "BUY"
    /\ LET s == lastCall.log[1].sellOrderId
       IN /\ lastCall.log[1].sells = <<s>>
          /\ lastCall.log[1].sellRemaining = 2 * orders[lastCall.orderId].shares
          /\ orders[s].shares = 2 * orders[lastCall.orderId].shares
          /\ orders[s].pricePerShare = orders[lastCall.orderId].pricePerShare
          /\ orders[s].status = "PARTIALLY_FILLED"

Depths == 0..(MaxOrders + 1)

\* what the claim expects of one side: min(n, length) entries from the
\* front, each with the price and the sharesRemaining of its order
DepthAsOrders(prices, shares, orderIds, n) ==
    LET count == IF n < Len(orderIds) THEN n ELSE Len(orderIds)
    IN /\ Len(prices) = count
       /\ Len(shares) = count
       /\ \A i \in 1..count :
             /\ prices[i] = orders[orderIds[i]].pricePerShare
             /\ shares[i] = orders[orderIds[i]].sharesRemaining

\* C16: for every project and every n, getOrderBookDepth returns min(n,
\* queue length) entries per side from the front of the queue, each with the
\* limit price and the current sharesRemaining of its order, also when that
\* order is PARTIALLY_FILLED.
C16_DepthShowsOrders ==
    \A p \in ProjectIds, n \in Depths :
        LET d == getOrderBookDepth(p, n)
        IN /\ DepthAsOrders(d.buyPrices, d.buyShares, projectBuyOrders[p], n)
           /\ DepthAsOrders(d.sellPrices, d.sellShares, projectSellOrders[p], n)

C17_Step ==
    \A o \in OrderIds :
    (lastCall'.op = "cancelOrder" /\ lastCall'.orderId = o) =>
        LET old == orders[o]
            t == old.trader
            p == old.projectId
            c == projects[p].purchaseToken
            currencyBack == IF old.orderType = "BUY"
                            THEN old.sharesRemaining * old.pricePerShare ELSE 0
            sharesBack == IF old.orderType = "SELL" THEN old.sharesRemaining ELSE 0
            before == getOrderBookDepth(p, MaxOrders)
            after == getOrderBookDepth(p, MaxOrders)'
        IN /\ IsOpen(o)
           /\ currencyBalance'[c][t] = currencyBalance[c][t] + currencyBack
           /\ tokenBalance'[p][t] = tokenBalance[p][t] + sharesBack
           /\ currencyBalance'[c][FactoryAddr] = currencyBalance[c][FactoryAddr] - currencyBack
           /\ tokenBalance'[p][FactoryAddr] = tokenBalance[p][FactoryAddr] - sharesBack
           /\ \A u \in Users \ {t} :
                 /\ currencyBalance'[c][u] = currencyBalance[c][u]
                 /\ tokenBalance'[p][u] = tokenBalance[p][u]
           /\ orders'[o] = [old EXCEPT !.status = "CANCELLED"]
           /\ ~InQueue(o, projectBuyOrders'[p])
           /\ ~InQueue(o, projectSellOrders'[p])
           /\ IF old.orderType = "BUY"
              THEN /\ Len(after.buyPrices) = Len(before.buyPrices) - 1
                   /\ after.sellPrices = before.sellPrices
              ELSE /\ Len(after.sellPrices) = Len(before.sellPrices) - 1
                   /\ after.buyPrices = before.buyPrices

\* C17: cancelOrder on an open order returns to its trader exactly
\* sharesRemaining x limit price (BUY) or sharesRemaining shares (SELL),
\* out of the Factory's escrow and to nobody else, marks the order
\* CANCELLED and changes nothing else of it, and removes it from its queue,
\* so that the depth query has one entry less on its side.  For an order
\* not yet matched, sharesRemaining = shares: the refund is the escrow taken
\* at placement.
C17_CancelRefunds == [][C17_Step]_vars

\* a BUY cancelled before any match and a SELL cancelled after a partial fill
C17_Witness ==
    /\ lastCall.op = "cancelOrder"
    /\ \E o \in OrderIds : /\ orders[o].status = "CANCELLED"
                           /\ orders[o].orderType = "BUY"
                           /\ orders[o].sharesRemaining = orders[o].shares
    /\ \E o \in OrderIds : /\ orders[o].status = "CANCELLED"
                           /\ orders[o].orderType = "SELL"
                           /\ orders[o].sharesRemaining < orders[o].shares

\* a call of cancelOrder that must fail: the caller did not place the order
\* (an id never assigned has no trader), or the order is FILLED or CANCELLED
MustNotCancel(u, o) ==
    \/ orders[o].trader # u
    \/ orders[o].status \in {"FILLED", "CANCELLED"}

C18_Refused ==
    \A u \in Users, o \in OrderIds :
        MustNotCancel(u, o) => ~ENABLED cancelOrder(u, o)

C18_Step ==
    (lastCall'.op = "cancelOrder") => ~MustNotCancel(lastCall'.sender, lastCall'.orderId)

\* C18: cancelOrder goes through for no caller other than the trader who
\* placed the order and for no order that is FILLED or CANCELLED; a call
\* that fails is no step, so it changes nothing.
C18_CancelGuards == [](C18_Refused) /\ [][C18_Step]_vars

\* the refused cases are all there: an open order of another trader, a
\* FILLED order, a CANCELLED order and an id never assigned
C18_Witness ==
    /\ \E o \in OrderIds : IsOpen(o) /\ orders[o].trader # lastCall.sender
    /\ \E o \in OrderIds : orders[o].status = "FILLED"
    /\ \E o \in OrderIds : orders[o].status = "CANCELLED"
    /\ \E o \in OrderIds : ~Assigned(o)
    /\ lastCall.op = "placeLimitOrder"

\* a call of placeLimitOrder that must fail
MustNotPlace(p, shares, price, expiration) ==
    \/ ~projects[p].exists
    \/ ~projects[p].secondaryMarketEnabled
    \/ shares = 0
    \/ price = 0
    \/ expiration # 0 /\ expiration <= now

C19_Refused ==
    \A u \in Traders, p \in ProjectIds, ty \in OrderTypes, sh \in GuardShares,
       pr \in GuardPrices, ex \in GuardExpirations :
        MustNotPlace(p, sh, pr, ex) => ~ENABLED placeLimitOrder(u, p, ty, sh, pr, ex)

C19_Step ==
    \A p \in ProjectIds, o \in OrderIds :
        (lastCall'.op = "placeLimitOrder" /\ lastCall'.projectId = p
         /\ lastCall'.orderId = o) =>
            /\ projects[p].exists
            /\ projects[p].secondaryMarketEnabled
            /\ orders'[o].shares > 0
            /\ orders'[o].pricePerShare > 0
            /\ orders'[o].expirationTime = 0 \/ orders'[o].expirationTime > now

\* C19: placeLimitOrder goes through for no call whose project does not
\* exist or has no secondary market, whose shares or price is 0, or whose
\* expiration is non-zero and not later than the current time; a call that
\* fails is no step, so it takes no escrow, stores and queues no order,
\* consumes no order id and executes no trade.
C19_PlaceGuards == [](C19_Refused) /\ [][C19_Step]_vars

\* orders were placed, one of them with an expiration, and the project has
\* since been switched to not existing
C19_Witness ==
    \E p \in ProjectIds :
        /\ ~projects[p].exists
        /\ projects[p].secondaryMarketEnabled
        /\ \E o \in OrderIds : orders[o].projectId = p /\ orders[o].expirationTime > now

\* a call of createProject that must fail
MustNotCreate(valuationUSD, sharesToSell, purchaseToken) ==
    \/ valuationUSD = 0
    \/ sharesToSell = 0
    \/ sharesToSell > TOTAL_SHARES
    \/ purchaseToken \notin Whitelisted

C20_Refused ==
    \A u \in Founders, v \in GuardValuations, s \in GuardSharesToSell,
       c \in Currencies :
        MustNotCreate(v, s, c) => ~ENABLED createProject(u, v, s, c)

C20_Step ==
    IF lastCall'.op = "createProject"
    THEN ~MustNotCreate(projects'[lastCall'.projectId].valuationUSD, lastCall'.amount,
                        projects'[lastCall'.projectId].purchaseToken)
    ELSE \* no project appears, no counter moves, no token is deployed
         /\ projectCounter' = projectCounter
         /\ \A p \in ProjectIds :
               projects[p].founder = NoAddress =>
                   /\ projects'[p].founder = NoAddress
                   /\ tokenBalance'[p] = tokenBalance[p]

\* C20: createProject goes through for no call with valuation 0, with
\* sharesToSell 0 or above TOTAL_SHARES, or with a purchase currency off the
\* allow-list; and without a createProject that goes through there is no
\* new project record, no change of the project counter and no share of a
\* new token.
C20_CreateGuards == [](C20_Refused) /\ [][C20_Step]_vars

C20_Witness ==
    /\ lastCall.op = "createProject"
    /\ projects[lastCall.projectId].exists
    /\ projectCounter = lastCall.projectId + 1
    /\ tokenBalance[lastCall.projectId]["f"] > 0

\* C21: right after a createProject that asked for sharesToSell shares, the
\* Factory holds fee = sharesToSell * PLATFORM_FEE / 10000 shares, the
\* project offers sharesToSell - fee shares in the primary sale, and these
\* two with the founder's shares add up to totalShares.
C21_IssuanceSplit ==
    lastCall.op = "createProject" =>
        LET p == lastCall.projectId
            fee == platformFeeOf(lastCall.amount)
        IN /\ tokenBalance[p][FactoryAddr] = fee
           /\ projects[p].availableSharesToSell = lastCall.amount - fee
           /\ tokenBalance[p][FactoryAddr] + projects[p].availableSharesToSell
                + tokenBalance[p][projects[p].founder] = projects[p].totalShares

\* the project record right after createProject, when the sale offers `offered`
JustCreated(offered) ==
    lastCall.op = "createProject" =>
        /\ projects[lastCall.projectId].availableSharesToSell = offered
        /\ projects[lastCall.projectId].sharesSold = 0
        /\ projects[lastCall.projectId].availableFunds = 0

\* what a buyShares step does to the buyer, the Factory and the counters
BuyStep(p) ==
    LET a == lastCall'.amount
        u == lastCall'.sender
        c == projects[p].purchaseToken
        cost == (a * projects[p].pricePerShare) \div ONE_SHARE
    IN /\ currencyBalance'[c][u] = currencyBalance[c][u] - cost
       /\ currencyBalance'[c][FactoryAddr] = currencyBalance[c][FactoryAddr] + cost
       /\ tokenBalance'[p][u] = tokenBalance[p][u] + a
       /\ projects'[p].availableSharesToSell = projects[p].availableSharesToSell - a
       /\ projects'[p].sharesSold = projects[p].sharesSold + a
       /\ projects'[p].availableFunds = projects[p].availableFunds + cost

\* the counters after the buyShares that directly follows createProject
FirstBuy(p, offered) ==
    (lastCall.op = "createProject" /\ lastCall.projectId = p) =>
        /\ projects'[p].availableSharesToSell = offered - lastCall'.amount
        /\ projects'[p].sharesSold = lastCall'.amount
        /\ projects'[p].availableFunds =
              (lastCall'.amount * projects[p].pricePerShare) \div ONE_SHARE

C22_StepAsStated ==
    \A p \in ProjectIds :
        (lastCall'.op = "buyShares" /\ lastCall'.projectId = p) =>
            BuyStep(p) /\ FirstBuy(p, lastCall.amount)

C22_Step ==
    \A p \in ProjectIds :
        (lastCall'.op = "buyShares" /\ lastCall'.projectId = p) =>
            BuyStep(p) /\ FirstBuy(p, lastCall.amount - platformFeeOf(lastCall.amount))

MustNotBuy(p, amount) ==
    \/ ~projects[p].exists
    \/ amount = 0
    \/ amount > projects[p].availableSharesToSell

C23_Refused ==
    \A u \in Investors, p \in ProjectIds, a \in GuardBuyAmounts :
        MustNotBuy(p, a) => ~ENABLED buyShares(u, p, a)

C23_Step ==
    \A p \in ProjectIds :
        IF lastCall'.op = "buyShares" /\ lastCall'.projectId = p
        THEN ~MustNotBuy(p, lastCall'.amount)
        ELSE \* no currency pulled, no share minted, the counters as they were
             /\ proceeds'[p] = proceeds[p]
             /\ tokenSharesToSell[p] > 0 => tokenSharesToSell'[p] = tokenSharesToSell[p]
             /\ projects[p].founder # NoAddress =>
                   /\ projects'[p].availableSharesToSell = projects[p].availableSharesToSell
                   /\ projects'[p].sharesSold = projects[p].sharesSold
                   /\ projects'[p].availableFunds = projects[p].availableFunds

\* C23: buyShares goes through for no call on a project that was never
\* created or is flagged as not existing, with amount 0, or with an amount
\* above availableSharesToSell; a call that fails is no step, and without a
\* buyShares that goes through no currency is pulled, no share is minted
\* from the sale and the project's counters stay as they are.
C23_BuyGuards == [](C23_Refused) /\ [][C23_Step]_vars

\* shares were bought and what is left of the sale is less than the amount asked
C23_Witness ==
    \E p \in ProjectIds :
        /\ lastCall.op = "buyShares"
        /\ projects[p].exists
        /\ projects[p].availableSharesToSell > 0
        /\ \E a \in GuardBuyAmounts :
              a <= TOTAL_SHARES /\ a > projects[p].availableSharesToSell

\* a caller withdrawFunds must turn away: anyone but the founder while the
\* project is unverified, anyone but an administrator once it is verified
MustNotWithdrawAs(u, p) ==
    IF projects[p].verified THEN ~hasAdminRole(u) ELSE u # projects[p].founder

C24_Refused ==
    \A u \in Users, p \in ProjectIds, a \in AuthAmounts, to \in AuthRecipients :
        MustNotWithdrawAs(u, p) => ~ENABLED withdrawFunds(u, p, a, to)

C24_Step ==
    \A p \in ProjectIds :
        (lastCall'.op = "withdrawFunds" /\ lastCall'.projectId = p) =>
            ~MustNotWithdrawAs(lastCall'.sender, p)

\* C24: withdrawFunds goes through only for the project's founder while the
\* project is unverified and only for an administrator once it is verified:
\* a founder who is no administrator cannot withdraw from a verified project,
\* an administrator who is not the founder cannot withdraw from an
\* unverified one.
C24_WithdrawAuthority == [](C24_Refused) /\ [][C24_Step]_vars

\* an administrator has withdrawn from a verified project that still holds
\* funds and whose founder is not an administrator
C24_Witness ==
    \E p \in ProjectIds :
        /\ lastCall.op = "withdrawFunds"
        /\ lastCall.sender \in Admins
        /\ projects[p].verified
        /\ projects[p].founder \in Founders
        /\ projects[p].availableFunds > 0

\* a call of withdrawFunds that must fail for its amount
MustNotWithdraw(p, amount) ==
    amount = 0 \/ amount > projects[p].availableFunds

C25_Refused ==
    \A u \in Users, p \in ProjectIds, a \in AuthAmounts, to \in AuthRecipients :
        MustNotWithdraw(p, a) => ~ENABLED withdrawFunds(u, p, a, to)

\* the recipient of the claim: the address given, or for the zero address
\* the founder of an unverified project and the caller for a verified one
RecipientDue(u, p, to) ==
    IF to # NoAddress THEN to
    ELSE IF projects[p].verified THEN u ELSE projects[p].founder

C25_Step ==
    \A u \in Users, p \in ProjectIds, a \in AuthAmounts, to \in AuthRecipients :
        withdrawFunds(u, p, a, to) =>
            LET c == projects[p].purchaseToken
                r == RecipientDue(u, p, to)
            IN /\ ~MustNotWithdraw(p, a)
               /\ projects'[p].availableFunds = projects[p].availableFunds - a
               /\ currencyBalance'[c][r] = currencyBalance[c][r] + a
               /\ currencyBalance'[c][FactoryAddr] = currencyBalance[c][FactoryAddr] - a
               /\ \A h \in Holders \ {r, FactoryAddr} :
                     currencyBalance'[c][h] = currencyBalance[c][h]

\* without a withdrawFunds that goes through the funds of a project only grow
C25_Kept ==
    \A p \in ProjectIds :
        (lastCall'.op # "withdrawFunds") =>
            /\ projects'[p].availableFunds >= projects[p].availableFunds
            /\ withdrawn'[p] = withdrawn[p]

\* C25: withdrawFunds goes through for no call with amount 0 or with an
\* amount above availableFunds, and such a call is no step; one that goes
\* through takes exactly amount off availableFunds and pays exactly amount
\* of the purchase currency from the Factory to the recipient, which for the
\* zero address is the founder (unverified project) or the calling
\* administrator (verified project).
C25_WithdrawAmounts == [](C25_Refused) /\ [][C25_Step /\ C25_Kept]_vars

\* withdrawals to the default recipient went through before and after the
\* verification, and funds are left
C25_Witness ==
    \E p \in ProjectIds :
        /\ lastCall.op = "withdrawFunds"
        /\ projects[p].verified
        /\ projects[p].founder \in Founders
        /\ currencyBalance[projects[p].purchaseToken][projects[p].founder] > 0
        /\ \E a \in Admins : currencyBalance[projects[p].purchaseToken][a] > 0
        /\ projects[p].availableFunds > 0

C26_StepAsStated ==
    \A p \in ProjectIds : projects[p].verified => projects'[p].verified

\* C26 as stated: a project that is verified is verified in every later state.
C26_VerifiedForever == [][C26_StepAsStated]_vars

\* nobody but an administrator can set the verification
C26_Refused ==
    \A u \in Users \ Admins, p \in ProjectIds, b \in BOOLEAN :
        ~ENABLED setProjectVerified(u, p, b)

C26_Step ==
    \A p \in ProjectIds :
        (projects'[p].verified # projects[p].verified) =>
            \/ /\ lastCall'.op = "setProjectVerified"
               /\ lastCall'.projectId = p
               /\ hasAdminRole(lastCall'.sender)
            \* the record createProject stores under a fresh id is unverified
            \/ /\ lastCall'.op = "createProject"
               /\ lastCall'.projectId = p
               /\ projects[p].founder = NoAddress

\* C26: the verification of a created project changes by nothing but
\* setProjectVerified, which only an administrator can call: a verified
\* project stays verified through every other operation, and withdrawal
\* authority returns to the founder only when an administrator calls
\* setProjectVerified(projectId, false).  (An id verified before its project
\* is created gets an unverified record from createProject.)
C26_VerifiedUntilUnset == [](C26_Refused) /\ [][C26_Step]_vars

\* an administrator has taken the verification back from a project that was
\* withdrawn from while verified, and the founder can withdraw again
C26_Witness ==
    \E p \in ProjectIds :
        /\ lastCall.op = "setProjectVerified"
        /\ ~projects[p].verified
        /\ projects[p].founder \in Founders
        /\ \E a \in Admins : currencyBalance[projects[p].purchaseToken][a] > 0
        /\ ENABLED withdrawFunds(projects[p].founder, p, 1, NoAddress)

\* a call of enableSecondaryMarket that must fail
MustNotEnable(u, p) ==
    \/ ~(u = projects[p].founder \/ hasAdminRole(u))
    \/ ~projects[p].exists
    \/ projects[p].secondaryMarketEnabled
    \/ tokenPaused[p]

C27_Refused ==
    \A u \in Users, p \in ProjectIds :
        MustNotEnable(u, p) => ~ENABLED enableSecondaryMarket(u, p)

C27_Step ==
    \A p \in ProjectIds :
        IF lastCall'.op = "enableSecondaryMarket" /\ lastCall'.projectId = p
        THEN /\ ~MustNotEnable(lastCall'.sender, p)
             /\ projects'[p].secondaryMarketEnabled
        ELSE /\ projects[p].founder # NoAddress =>
                   projects'[p].secondaryMarketEnabled = projects[p].secondaryMarketEnabled
             /\ lastCall'.op \notin {"placeLimitOrder", "matchOrders"} =>
                   projectMarketStats'[p] = projectMarketStats[p]

\* C27: enableSecondaryMarket goes through only for the project's founder or
\* an administrator, on a project that exists, whose secondary market is not
\* enabled yet and whose token is not paused; a call that fails, as one on a
\* market already enabled, is no step, and without one that goes through
\* the secondaryMarketEnabled flag and the market statistics stay as they
\* are.
C27_EnableGuards == [](C27_Refused) /\ [][C27_Step]_vars

\* the market of a project is open, and its token is still unpaused
C27_Witness ==
    \E p \in ProjectIds :
        /\ lastCall.op = "enableSecondaryMarket"
        /\ projects[p].secondaryMarketEnabled
        /\ projects[p].exists
        /\ ~tokenPaused[p]

\* a step that is matchOrders(p) on a book the last matching call left
Rematch(p) ==
    /\ MatchingCall
    /\ lastCall.projectId = p
    /\ lastCall'.op = "matchOrders"
    /\ lastCall'.projectId = p

C28_Step ==
    \A p \in ProjectIds :
        Rematch(p) =>
            /\ Len(lastCall'.log) = 0
            /\ UNCHANGED <<orders, userOrders, projectBuyOrders, projectSellOrders>>
            /\ UNCHANGED <<tokenBalance, currencyBalance>>
            /\ UNCHANGED <<projectTrades, projectMarketStats, TradeFeeAmount>>
            /\ UNCHANGED <<projectCounter, orderCounter, tradeCounter>>

\* C28: matchOrders on a project whose book was just left by a matching call
\* (matchOrders itself, or the one that ends placeLimitOrder) executes no
\* trade and changes no stored value: orders, queues, balances, trade
\* history, market statistics, fee pool and id counters.
C28_MatchIdempotent == [][C28_Step]_vars

\* the trades a step adds to the history of project p: as many as the call
\* executed, none when the step is no matching call on p
TradesAdded(p) ==
    IF lastCall'.op \in {"placeLimitOrder", "matchOrders"} /\ lastCall'.projectId = p
    THEN Len(lastCall'.log) ELSE 0

\* record t is the record of the k-th trade of the call that just returned
RecordsTrade(t, k) ==
    LET e == lastCall'.log[k]
    IN /\ t.buyOrderId = e.buyOrderId
       /\ t.sellOrderId = e.sellOrderId
       /\ t.buyer = orders'[e.buyOrderId].trader
       /\ t.seller = orders'[e.sellOrderId].trader
       /\ t.shares = Min2(e.buyRemaining, e.sellRemaining)
       /\ t.pricePerShare = orders'[e.sellOrderId].pricePerShare
       /\ t.totalValue = t.shares * t.pricePerShare
       /\ t.timestamp = now

C29_Step ==
    \A p \in ProjectIds :
        LET old == projectTrades[p]
            new == projectTrades'[p]
        IN /\ Len(new) = Len(old) + TradesAdded(p)
           /\ \A i \in 1..Len(old) : new[i] = old[i]
           /\ \A k \in 1..TradesAdded(p) : RecordsTrade(new[Len(old) + k], k)

\* C29: a project's trade history only grows at its end: no step changes or
\* removes a recorded trade, a matching call adds one record per trade it
\* executed and no other step adds any, and each record carries the ids and
\* the traders of the two orders matched, the quantity traded and the
\* execution price.
C29_TradesAppendOnly == [][C29_Step]_vars

\* a call has added one trade to a history that already held one
C29_Witness ==
    \E p \in ProjectIds :
        /\ Len(projectTrades[p]) = 2
        /\ Len(lastCall.log) = 1
        /\ lastCall.projectId = p
        /\ projectTrades[p][1].buyOrderId # projectTrades[p][2].buyOrderId

\* the sum of the values of the trades recorded for project p
ValueOfTrades(p) ==
    SetSum(1..Len(projectTrades[p]), [i \in 1..Len(projectTrades[p]) |->
                                         projectTrades[p][i].totalValue])

Expired(o) == orders[o].expirationTime # 0 /\ orders[o].expirationTime <= now

\* the book of project p as a matching call would leave it, from the orders ords
MatchedFrom(p, ords) ==
    matchOrdersForProject(
        MatchState(ords, projectBuyOrders[p], projectSellOrders[p], projectTrades[p],
                   projectMarketStats[p], tokenBalance, currencyBalance),
        projects[p], p, TRADING_FEE_RATE, tradeCounter, now)

\* the orders with their expiration times taken off
Unexpiring(ords) == [o \in OrderIds |-> [ords[o] EXCEPT !.expirationTime = 0]]

\* an open order past its expiration is still queued and its trader can
\* cancel it
C31_Kept ==
    \A o \in OrderIds :
        (IsOpen(o) /\ Expired(o)) =>
            /\ Queued(o)
            /\ ENABLED cancelOrder(orders[o].trader, o)

\* matching gives what it would give were no order to expire
C31_MatchedAlike ==
    \A p \in ProjectIds :
        LET real == MatchedFrom(p, orders)
            bare == MatchedFrom(p, Unexpiring(orders))
        IN /\ real.ok = bare.ok
           /\ real.buys = bare.buys
           /\ real.sells = bare.sells
           /\ real.trades = bare.trades
           /\ real.tok = bare.tok
           /\ real.cur = bare.cur
           /\ real.tradesExecuted = bare.tradesExecuted
           /\ Unexpiring(real.orders) = bare.orders

\* an order changes by nothing but its own cancellation or a trade it is in
C31_Step ==
    \A o \in OrderIds :
        (Assigned(o) /\ orders'[o] # orders[o]) =>
            \/ lastCall'.op = "cancelOrder" /\ lastCall'.orderId = o
            \/ \E k \in 1..Len(lastCall'.log) :
                  lastCall'.log[k].buyOrderId = o \/ lastCall'.log[k].sellOrderId = o

\* C31: the expiration of an order is recorded and nothing more: an order
\* whose expiration time has passed is not purged, it stays in its queue with
\* the status it had, matching treats it as it treats an order that does not
\* expire, and its trader can still cancel it.
C31_ExpirationAdvisory == [](C31_Kept /\ C31_MatchedAlike) /\ [][C31_Step]_vars

\* a trade took an order whose expiration had passed
C31_Witness ==
    \E k \in 1..Len(lastCall.log) :
        Expired(lastCall.log[k].buyOrderId) \/ Expired(lastCall.log[k].sellOrderId)

\* C32: whenever a trade brings an order's sharesRemaining to zero, the
\* order is FILLED and out of its queue at the time the shares and the
\* currency of that trade are transferred.
C32_RemovalBeforeTransfer ==
    \A k \in 1..Len(lastCall.log) :
        LET e == lastCall.log[k]
        IN /\ e.buyRemaining <= e.sellRemaining =>
                 /\ e.buyStatusAtTransfer = "FILLED"
                 /\ ~InQueue(e.buyOrderId, e.buysAtTransfer)
           /\ e.sellRemaining <= e.buyRemaining =>
                 /\ e.sellStatusAtTransfer = "FILLED"
                 /\ ~InQueue(e.sellOrderId, e.sellsAtTransfer)

\* ------------------------------------------- insertion on its own
\* OrderBookTestHelper: orders are stored first and inserted afterwards.
MaxInsertLen == 2
InsertIds == 1..3
InsertPrices == {1, 2}
PROJECT_ID == 1

\* createTestOrder(orderId, projectId, trader, shares, pricePerShare)
createTestOrder(orderId, projectId, trader, shares, pricePerShare) ==
    /\ orders' = [orders EXCEPT ![orderId] =
                     [orderId |-> orderId,
                      projectId |-> projectId,
                      trader |-> trader,
                      orderType |-> "BUY",
                      shares |-> shares,
                      sharesRemaining |-> shares,
                      pricePerShare |-> pricePerShare,
                      totalValue |-> shares * pricePerShare,
                      timestamp |-> now,
                      expirationTime |-> 0,
                      status |-> "ACTIVE",
                      isMarketOrder |-> FALSE]]
    /\ lastCall' = Call("createTestOrder", trader, projectId, orderId, pricePerShare, <<>>)
    /\ UNCHANGED <<factoryVars, ledgerVars, userOrders, projectBuyOrders, projectSellOrders,
                   projectTrades, projectMarketStats, now, proceeds, withdrawn>>

\* testInsertBuyOrder(orderId, projectId): the body of _insertBuyOrder
testInsertBuyOrder(orderId, projectId) ==
    /\ projectBuyOrders' = [projectBuyOrders EXCEPT ![projectId] =
                               _insertBuyOrder(orderId, @, orders)]
    /\ lastCall' = Call("testInsertBuyOrder", NoAddress, projectId, orderId, 0, <<>>)
    /\ UNCHANGED <<factoryVars, ledgerVars, orders, userOrders, projectSellOrders,
                   projectTrades, projectMarketStats, now, proceeds, withdrawn>>

NextInsert ==
    \/ \E o \in InsertIds, pr \in InsertPrices :
           createTestOrder(o, PROJECT_ID, "i1", 1, pr)
    \/ \E o \in InsertIds :
           Len(projectBuyOrders[PROJECT_ID]) <= MaxInsertLen /\ testInsertBuyOrder(o, PROJECT_ID)

SpecInsert == Init /\ [][NextInsert]_vars

\* queue q is non-increasing by the prices stored in ords
NonIncreasing(q, ords) ==
    \A i, j \in 1..Len(q) : i < j => ords[q[i]].pricePerShare >= ords[q[j]].pricePerShare

\* how many times id occurs in q
Occurrences(id, q) == Cardinality({i \in 1..Len(q) : q[i] = id})

\* C33: _insertBuyOrder, applied to a queue non-increasing by price and to
\* a stored order that is not in it, gives a queue one longer, still
\* non-increasing, with the new id exactly once, the other ids in their
\* former order, every existing order of a price at least the new price
\* before the new id and every cheaper one after it.
C33_Step ==
    \A p \in ProjectIds, id \in OrderIds :
        LET q == projectBuyOrders[p]
            r == projectBuyOrders'[p]
            k == FirstIndex(r, {id})
        IN (/\ lastCall'.op = "testInsertBuyOrder"
            /\ lastCall'.projectId = p
            /\ lastCall'.orderId = id
            /\ NonIncreasing(q, orders)
            /\ ~InQueue(id, q)) =>
               /\ Len(r) = Len(q) + 1
               /\ NonIncreasing(r, orders)
               /\ Occurrences(id, r) = 1
               /\ _removeBuyOrder(id, r) = q
               /\ \A i \in 1..Len(r) :
                      /\ i < k => PriceOf(r[i]) >= PriceOf(id)
                      /\ i > k => PriceOf(r[i]) < PriceOf(id)

C33_InsertKeepsOrder == [][C33_Step]_vars

\* an order was inserted between two queued orders, behind one of its price
C33_Witness ==
    /\ lastCall.op = "testInsertBuyOrder"
    /\ \E p \in ProjectIds :
           LET r == projectBuyOrders[p]
           IN /\ Len(r) = 3
              /\ r[2] = lastCall.orderId
              /\ r[1] < r[2]
              /\ PriceOf(r[1]) = PriceOf(r[2])
              /\ PriceOf(r[3]) < PriceOf(r[2])
              /\ Occurrences(r[1], r) = 1 /\ Occurrences(r[3], r) = 1

\* what Factory.matchOrders would return for project p in the current state
MatchReturn(p) ==
    matchOrdersForProject(MatchState(orders, projectBuyOrders[p], projectSellOrders[p],
                                     projectTrades[p], projectMarketStats[p],
                                     tokenBalance, currencyBalance),
                          projects[p], p, TRADING_FEE_RATE, tradeCounter, now)

\* the open orders standing in the two queues of project p
OpenQueued(p) ==
    {o \in OrderIds : IsOpen(o) /\ (InQueue(o, projectBuyOrders[p]) \/ InQueue(o, projectSellOrders[p]))}

\* the two queues are shorter after trade k of the last matching call than before it
TradeShortens(k) ==
    LET log == lastCall.log
        p == lastCall.projectId
        buysAfter == IF k < Len(log) THEN log[k + 1].buys ELSE projectBuyOrders[p]
        sellsAfter == IF k < Len(log) THEN log[k + 1].sells ELSE projectSellOrders[p]
    IN Len(buysAfter) + Len(sellsAfter) < Len(log[k].buys) + Len(log[k].sells)

C34_Shortens == \A k \in 1..Len(lastCall.log) : TradeShortens(k)

C34_Step ==
    /\ \A p \in ProjectIds :
        (lastCall'.op = "matchOrders" /\ lastCall'.projectId = p) =>
            /\ MatchReturn(p).tradesExecuted <= Cardinality(OpenQueued(p))
            /\ MatchReturn(p).tradesExecuted = Len(projectTrades'[p]) - Len(projectTrades[p])
            /\ MatchReturn(p).tradesExecuted = Len(lastCall'.log)
    /\ \A p \in ProjectIds :
        (lastCall'.op = "placeLimitOrder" /\ lastCall'.projectId = p) =>
            /\ Len(lastCall'.log) <= Cardinality(OpenQueued(p)) + 1
            /\ Len(lastCall'.log) = Len(projectTrades'[p]) - Len(projectTrades[p])

\* C34: every trade of a matching call leaves the two queues of its project
\* shorter than it found them, so that the loop ends; a matchOrders call
\* executes at most as many trades as open orders stood in the two queues
\* when it began, and returns as tradesExecuted the number of trade records
\* it appended.
C34_MatchTerminates == [](C34_Shortens) /\ [][C34_Step]_vars

\* a matchOrders call that executed a trade
C34_Witness ==
    /\ lastCall.op = "matchOrders"
    /\ Len(lastCall.log) = 1
    /\ TradeShortens(1)

\* how many times order o stands in the queues of all projects
QueueEntries(o) ==
    LET Count(p) == Occurrences(o, projectBuyOrders[p]) + Occurrences(o, projectSellOrders[p])
    IN SetSum(ProjectIds, [p \in ProjectIds |-> Count(p)])

\* the queue the order o belongs to: that of its project and its side
OwnQueue(o) ==
    IF orders[o].orderType = "BUY" THEN projectBuyOrders[orders[o].projectId]
    ELSE projectSellOrders[orders[o].projectId]

MaxTreasuryOrders == 2
FeeAmounts == {1, 2}

NextTreasury ==
    \/ \E p \in ProjectIds, pr \in OrderPrices :
          orderCounter <= MaxTreasuryOrders /\ placeLimitOrder("i2", p, "BUY", 1, pr, 0)
    \/ \E p \in ProjectIds, pr \in OrderPrices :
          orderCounter <= MaxTreasuryOrders /\ placeLimitOrder("i1", p, "SELL", 1, pr, 0)
    \/ \E u \in Traders, o \in OrderIds : cancelOrder(u, o)
    \/ \E p \in ProjectIds : withdrawFunds("f", p, 2, NoAddress)
    \/ \E a \in FeeAmounts : withdrawFees("adm", NoAddress, "USDC", a)

SpecTreasury == InitBook /\ [][NextTreasury]_vars

C36_Solvent ==
    \A c \in Whitelisted :
        currencyBalance[c][FactoryAddr] >= FundsIn(c) + OpenBuyEscrow(c)

C36_Step ==
    lastCall'.op = "withdrawFees" => lastCall'.amount <= TradeFeeAmount

\* C36: in every state, withdrawFees calls included, the Factory holds of
\* each purchase currency at least the availableFunds of the projects that
\* use it plus the currency escrowed for the open BUY orders, and no
\* withdrawFees call pays out more than the trading fees accrued.
C36_SolventUnderFeeWithdrawal == [](C36_Solvent) /\ [][C36_Step]_vars

BookCalls == {"placeLimitOrder", "cancelOrder", "matchOrders"}
IssuanceCalls == {"buyShares", "withdrawFunds"}

\* the three counters of the primary sale, for every project
SaleCounters(projs) ==
    [p \in ProjectIds |-> <<projs[p].availableSharesToSell, projs[p].sharesSold,
                            projs[p].availableFunds>>]

C37_Step ==
    /\ lastCall'.op \in BookCalls => SaleCounters(projects') = SaleCounters(projects)
    /\ lastCall'.op \in IssuanceCalls =>
          /\ orders' = orders
          /\ userOrders' = userOrders
          /\ projectBuyOrders' = projectBuyOrders
          /\ projectSellOrders' = projectSellOrders
          /\ projectTrades' = projectTrades
          /\ projectMarketStats' = projectMarketStats

\* C37: placeLimitOrder, cancelOrder and matchOrders leave every project's
\* availableSharesToSell, sharesSold and availableFunds as they were;
\* buyShares and withdrawFunds leave every order, queue, trade record and
\* market statistic as they were.
C37_Frames == [][C37_Step]_vars

\* a primary sale made while the book holds an open order and a trade
C37_Witness ==
    /\ lastCall.op = "buyShares"
    /\ \E o \in OrderIds : IsOpen(o)
    /\ \E p \in ProjectIds : Len(projectTrades[p]) > 0 /\ projects[p].sharesSold > 0

\* ------------------------------------------- the book under the pauses
MaxPauseOrders == 2

NextPauses ==
    \/ \E p \in ProjectIds, pr \in OrderPrices :
          orderCounter <= MaxPauseOrders /\ placeLimitOrder("i2", p, "BUY", 1, pr, 0)
    \/ \E p \in ProjectIds, pr \in OrderPrices :
          orderCounter <= MaxPauseOrders /\ placeLimitOrder("i1", p, "SELL", 1, pr, 0)
    \/ \E u \in Traders, o \in OrderIds : cancelOrder(u, o)
    \/ pause("adm")
    \/ unpause("adm")
    \/ \E p \in ProjectIds : pauseProject("adm", p)
    \/ \E p \in ProjectIds : unpauseProject("adm", p)
    \/ \E p \in ProjectIds, b \in BOOLEAN : setProjectExists("adm", p, b)

SpecPauses == InitBook /\ [][NextPauses]_vars

\* the trader of every open order can cancel it now
C38_Cancellable ==
    \A o \in OrderIds : IsOpen(o) => ENABLED cancelOrder(orders[o].trader, o)

\* a cancellation pays the trader the remaining collateral of the order
C38_Step ==
    \A o \in OrderIds :
        (lastCall'.op = "cancelOrder" /\ lastCall'.orderId = o) =>
            LET order == orders[o]
                pid == order.projectId
                pt == projects[pid].purchaseToken
            IN IF order.orderType = "BUY"
               THEN currencyBalance'[pt][order.trader] =
                        currencyBalance[pt][order.trader]
                            + order.sharesRemaining * order.pricePerShare
               ELSE tokenBalance'[pid][order.trader] =
                        tokenBalance[pid][order.trader] + order.sharesRemaining

\* C38: in every state, the Factory paused, the token paused or the project
\* flagged non-existent included, the trader of each ACTIVE or
\* PARTIALLY_FILLED order can cancel it, and the cancellation returns the
\* remaining collateral of the order to the trader.
C38_EscrowRecoverable == [](C38_Cancellable) /\ [][C38_Step]_vars

C39_Priced ==
    \A p \in ProjectIds : projects[p].founder # NoAddress => projects[p].pricePerShare > 0

C39_Step ==
    \A p \in ProjectIds :
        (lastCall'.op = "buyShares" /\ lastCall'.projectId = p /\ lastCall'.amount > 0) =>
            /\ proceeds'[p] - proceeds[p] =
                   costOf(lastCall'.amount, projects[p].pricePerShare)
            /\ proceeds'[p] - proceeds[p] > 0

\* C39: every created project has pricePerShare > 0, and every successful
\* buyShares of an amount > 0 charges a cost, amount x pricePerShare / 10^18,
\* greater than zero.
C39_PositivePriceAndCost == [](C39_Priced) /\ [][C39_Step]_vars

\* the inputs createProject's requires let through
ValidCreateInputs ==
    {<<v, s, c>> \in (Valuations \X (1..TOTAL_SHARES) \X Whitelisted) : createRequires(v, s, c)}

C40_Accepts ==
    (~paused /\ projectCounter <= MaxProjects /\ PLATFORM_FEE \in 0..BASIS_POINTS) =>
        \A u \in Founders, in \in ValidCreateInputs :
            ENABLED createProject(u, in[1], in[2], in[3])

C40_Step ==
    lastCall'.op = "createProject" =>
        /\ lastCall'.projectId = projectCounter
        /\ projectCounter' = projectCounter + 1
        /\ projects[lastCall'.projectId].founder = NoAddress

\* C40: while the Factory is not paused, createProject succeeds for every
\* valuation > 0, every sharesToSell from 1 to TOTAL_SHARES, every
\* allow-listed currency and every platform fee rate from 0 to 10000 basis
\* points, and it returns an id not used before, one greater than the id
\* returned by the creation before it.
C40_CreateAcceptsValid == [](C40_Accepts) /\ [][C40_Step]_vars

====
